---- MODULE Spec2Model ----
(***************************************************************************)
(* Call-log reconstruction of bin/sdr.py: the per-call state machine       *)
(* (Call), the line classifier (EventLine), the fold of log lines into     *)
(* generations of calls (CallTimestamp._process_logs), the window          *)
(* computation (CallTimestamp.get_log / start_calls / stop_calls) and the  *)
(* pickled, lock-protected checkpoint file (AtomicOpen, __init__, _dump).  *)
(***************************************************************************)
EXTENDS Integers, Sequences, FiniteSets, TLC

VARIABLES
    call,             \* SpecCall: the Call object under test
    calls_error_log,  \* calls_error.log: the "Unknown event" entries appended so far
    now,              \* the wall clock, in seconds (datetime.now().replace(microsecond=0))
    ticks,            \* number of clock advances so far (bounded by MaxTicks)
    runs,             \* number of invocations started so far (bounded by MaxRuns)
    file,             \* the call_timestamp file: [state, obj, version]
    last,             \* outcome of the last finished invocation: [op, exc]
    commits,          \* history: the fetched windows <<since, until>> whose save completed
    lock,             \* SpecConc: the process holding the fcntl lock, or NoProc
    pc,               \* SpecConc: each process's position
    self,             \* SpecConc: each process's in-memory CallTimestamp object
    base,             \* SpecConc: the version of the file each process loaded
    win,              \* SpecConc: the window a process fetched and has not yet saved
    fold,             \* SpecFold: the object the queries fold lines into, and their last answer
    reg,              \* SpecLines: the generations _process_logs folds lines into, line by line
    journal,          \* SpecJournal: the lines journalctl has printed so far, second by second
    twins             \* SpecPair: two Call objects and the event they got last

vars == <<call, calls_error_log, now, ticks, runs, file, last, commits, lock, pc, self, base, win,
          fold, reg, journal, twins>>

(***************************************************************************)
(* Bounds of the model.                                                    *)
(***************************************************************************)
MaxCallEvents == 3   \* SpecCall: events fed to the one Call
MaxTicks == 3        \* clock advances
MaxRuns == 3         \* Spec: invocations (start_calls / stop_calls / get_log)
MaxLines == 1        \* lines one fetch returns
MaxConcRuns == 3     \* SpecConc: invocations started by all processes together
MaxFoldRuns == 5     \* SpecFold: status queries
MaxFoldTime == 2     \* SpecFold: the latest second a fetched line is stamped with
MaxRegLines == 5     \* SpecLines: lines folded
MaxJournalTime == 2  \* SpecJournal: the last second in which the journal gets a line
MaxChainEvents == 10 \* SpecChain: events fed to the one Call
MaxPairSolo == 1     \* SpecPair: events each Call gets alone before both get the same

(***************************************************************************)
(* None: Python's None for the datetime / event-time fields.  Clock values *)
(* and event times are >= 1, so 0 is never a time.                         *)
(***************************************************************************)
None == 0
NoStatus == "None"

(***************************************************************************)
(* CallStatus, CallState                                                   *)
(***************************************************************************)
CallStatus ==
    {"NEW", "NOT_AVAILABLE", "AVAILABLE", "INIT", "RINGING", "ACTIVE", "REJECT_BY_USER",
     "UP", "HANGUP", "HANGUP_BY_USER", "HANGUP_BY_BTS", "BREAK_BY_BTS", "STOP_BY_BTS",
     "UNKNOWN"}

is_final_no_reject(status) ==
    status \in {"NOT_AVAILABLE", "HANGUP_BY_USER", "HANGUP_BY_BTS",
                "BREAK_BY_BTS", "STOP_BY_BTS"}

is_final(status) ==
    status \in {"NOT_AVAILABLE", "REJECT_BY_USER", "HANGUP_BY_USER", "HANGUP_BY_BTS",
                "BREAK_BY_BTS", "STOP_BY_BTS"}

CallState ==
    {"NULL", "CALL_PRESENT", "MO_TERM_CALL_CONF", "CALL_RECEIVED", "CONNECT_REQUEST",
     "ACTIVE", "DISCONNECT_IND", "RELEASE_REQ", "BROKEN_BY_BTS", "NOT_AVAILABLE", "NEW"}

\* CallStateEvent(state, prev_state, event_time)
CallStateEvent(state, prev_state, event_time) ==
    [state |-> state, prev_state |-> prev_state, event_time |-> event_time]

(***************************************************************************)
(* Call._statuses: (prev_state, state) -> CallStatus, None for the         *)
(* RELEASE_REQ -> NULL entry.                                              *)
(***************************************************************************)
_statuses ==
    (<<"NEW", "NULL">> :> "NEW") @@
    (<<"NULL", "CALL_PRESENT">> :> "AVAILABLE") @@
    (<<"NULL", "BROKEN_BY_BTS">> :> "BREAK_BY_BTS") @@
    (<<"NULL", "NOT_AVAILABLE">> :> "NOT_AVAILABLE") @@
    (<<"CALL_PRESENT", "RELEASE_REQ">> :> "BREAK_BY_BTS") @@
    (<<"CALL_PRESENT", "NULL">> :> "BREAK_BY_BTS") @@
    (<<"CALL_PRESENT", "MO_TERM_CALL_CONF">> :> "INIT") @@
    (<<"RELEASE_REQ", "NULL">> :> NoStatus) @@
    (<<"MO_TERM_CALL_CONF", "RELEASE_REQ">> :> "BREAK_BY_BTS") @@
    (<<"MO_TERM_CALL_CONF", "NULL">> :> "BREAK_BY_BTS") @@
    (<<"MO_TERM_CALL_CONF", "CALL_RECEIVED">> :> "RINGING") @@
    (<<"CALL_RECEIVED", "DISCONNECT_IND">> :> "REJECT_BY_USER") @@
    (<<"DISCONNECT_IND", "RELEASE_REQ">> :> "HANGUP_BY_USER") @@
    (<<"CALL_RECEIVED", "CONNECT_REQUEST">> :> "UP") @@
    (<<"CONNECT_REQUEST", "ACTIVE">> :> "ACTIVE") @@
    (<<"ACTIVE", "DISCONNECT_IND">> :> "HANGUP") @@
    (<<"DISCONNECT_IND", "NULL">> :> "HANGUP_BY_BTS") @@
    (<<"CALL_RECEIVED", "RELEASE_REQ">> :> "STOP_BY_BTS") @@
    (<<"CALL_RECEIVED", "NULL">> :> "STOP_BY_BTS")

\* Call.__init__
Call(imsi, callref, tid) ==
    [imsi |-> imsi, callref |-> callref, tid |-> tid,
     events |-> <<>>, statuses |-> <<>>, status |-> NoStatus]

\* the entries Call._save_error appends for one add_event (none or one)
save_error(self_call, event) ==
    IF (self_call.status = NoStatus \/ ~is_final(self_call.status))
       /\ <<event.prev_state, event.state>> \notin DOMAIN _statuses
    THEN <<<<event.prev_state, event.state>>>>
    ELSE <<>>

\* a slip that treats a pair missing from the table like the table's None
\* entry: the status is kept and no UNKNOWN is recorded
add_event_no_unknown(self_call, event, tid) ==
    LET s1 == [self_call EXCEPT !.events = Append(@, event), !.tid = tid]
    IN  IF s1.status = NoStatus \/ ~is_final(s1.status)
        THEN LET key == <<event.prev_state, event.state>>
                 new_status == IF key \in DOMAIN _statuses THEN _statuses[key]
                               ELSE NoStatus
                 st == IF new_status # NoStatus THEN new_status ELSE s1.status
             IN  [s1 EXCEPT !.status = st, !.statuses = Append(@, st)]
        ELSE s1

\* a slip that adopts the table's None instead of keeping the status
add_event_adopt_none(self_call, event, tid) ==
    LET s1 == [self_call EXCEPT !.events = Append(@, event), !.tid = tid]
    IN  IF s1.status = NoStatus \/ ~is_final(s1.status)
        THEN LET key == <<event.prev_state, event.state>>
                 new_status == IF key \in DOMAIN _statuses THEN _statuses[key]
                               ELSE "UNKNOWN"
             IN  [s1 EXCEPT !.status = new_status, !.statuses = Append(@, new_status)]
        ELSE s1

\* a slip that records a status only when it changed
add_event_changes_only(self_call, event, tid) ==
    LET s1 == [self_call EXCEPT !.events = Append(@, event), !.tid = tid]
    IN  IF s1.status = NoStatus \/ ~is_final(s1.status)
        THEN LET key == <<event.prev_state, event.state>>
                 new_status == IF key \in DOMAIN _statuses THEN _statuses[key]
                               ELSE "UNKNOWN"
                 st == IF new_status # NoStatus THEN new_status ELSE s1.status
             IN  IF st = s1.status THEN s1
                 ELSE [s1 EXCEPT !.status = st, !.statuses = Append(@, st)]
        ELSE s1

\* a slip that maps an event by its pair only when the event starts from the
\* state the session's last raw event ended in, and to UNKNOWN otherwise
add_event_check_chain(self_call, event, tid) ==
    LET s1 == [self_call EXCEPT !.events = Append(@, event), !.tid = tid]
    IN  IF s1.status = NoStatus \/ ~is_final(s1.status)
        THEN LET key == <<event.prev_state, event.state>>
                 follows == \/ self_call.events = <<>>
                            \/ event.prev_state
                                  = self_call.events[Len(self_call.events)].state
                 new_status == IF key \in DOMAIN _statuses /\ follows THEN _statuses[key]
                               ELSE "UNKNOWN"
                 st == IF new_status # NoStatus THEN new_status ELSE s1.status
             IN  [s1 EXCEPT !.status = st, !.statuses = Append(@, st)]
        ELSE s1

\* Call.add_event
add_event(self_call, event, tid) ==
    LET s1 == [self_call EXCEPT !.events = Append(@, event), !.tid = tid]
    IN  IF s1.status = NoStatus \/ ~is_final(s1.status)
        THEN LET key == <<event.prev_state, event.state>>
                 new_status == IF key \in DOMAIN _statuses THEN _statuses[key]
                               ELSE "UNKNOWN"
                 \* self.status = new_status or self.status
                 st == IF new_status # NoStatus THEN new_status ELSE s1.status
             IN  [s1 EXCEPT !.status = st, !.statuses = Append(@, st)]
        ELSE s1

\* Call.get_last_state
get_last_state(self_call) == self_call.events[Len(self_call.events)].state

\* a slip that takes every NULL for the end of the call
is_over_any_null(self_call) ==
    get_last_state(self_call) \in {"NOT_AVAILABLE", "BROKEN_BY_BTS", "NULL"}

\* a slip that takes the subscriber's disconnect for the end of the call
is_over_disconnect(self_call) ==
    \/ get_last_state(self_call) \in {"NOT_AVAILABLE", "BROKEN_BY_BTS", "DISCONNECT_IND"}
    \/ (get_last_state(self_call) = "NULL" /\ Len(self_call.events) > 1)

\* Call.is_over
is_over(self_call) ==
    \/ get_last_state(self_call) \in {"NOT_AVAILABLE", "BROKEN_BY_BTS"}
    \/ (get_last_state(self_call) = "NULL" /\ Len(self_call.events) > 1)

(***************************************************************************)
(* Log lines.  A line is the record of what the patterns of                *)
(* EventLine._templates and of the pre filter can see in its text:         *)
(*   event_time  capture of template 3, the text before " bts"             *)
(*               (None: no match)                                          *)
(*   cc          "trans(CC" occurs in the line                             *)
(*   imsi        capture of template 0, the digits after "IMSI-"           *)
(*               ("": no match)                                            *)
(*   callref     capture of template 1, the hex digits after "callref-0x", *)
(*               as a tuple of digits (<<>>: no match)                     *)
(*   tid         capture of template 2, the digits after " tid-"           *)
(*               ("": no match)                                            *)
(*   from_state, to_state   the two names A and B of " new state A -> B"   *)
(*               ("": the line has no " new state ")                       *)
(*   tail        what the line ends with, one of "New transaction",        *)
(*               "Paging expired", "tx MNCC_REL_CNF" or ""; after          *)
(*               " new state A -> B" it is part of what template 5         *)
(*               captures                                                  *)
(*   started     "Started Osmocom Mobile Switching Center" follows " bts"  *)
(* The tids of the model are "1", "2", "8" and "255": "tid-255" occurs in  *)
(* a line exactly when its tid is "255", "tid-8" when it is "8".           *)
(***************************************************************************)
Line(event_time, cc, imsi, callref, tid, from_state, to_state, tail, started) ==
    [event_time |-> event_time, cc |-> cc, imsi |-> imsi, callref |-> callref,
     tid |-> tid, from_state |-> from_state, to_state |-> to_state,
     tail |-> tail, started |-> started]

\* "... bts osmo-msc: trans(CC IMSI-<imsi>: ... tid-<tid>, callref-0x<callref> ) New transaction"
NewTransactionLine(t, imsi, callref, tid) ==
    Line(t, TRUE, imsi, callref, tid, "", "", "New transaction", FALSE)
\* "... trans(CC IMSI-<imsi>: ... callref-0x<callref> tid-<tid>) new state <from> -> <to>"
NewStateLine(t, imsi, callref, tid, from, to) ==
    Line(t, TRUE, imsi, callref, tid, from, to, "", FALSE)
\* "... bts systemd[1]: Started Osmocom Mobile Switching Center."
StartedLine(t) ==
    Line(t, FALSE, "", <<>>, "", "", "", "", TRUE)
\* "... trans(CC IMSI-<imsi>: ... callref-0x0 tid-255,PAGING) Paging expired"
PagingExpiredLine(t, imsi, tid) ==
    Line(t, TRUE, imsi, <<"0">>, tid, "", "", "Paging expired", FALSE)

\* EventLine._exclude: "callref-0x", then 4 or 8, then seven more hex digits
exclude_search(line) ==
    Len(line.callref) >= 8 /\ line.callref[1] \in {"4", "8"}

\* EventLine._templates[6..9]: the four marker patterns
expired_of(line) == line.tid = "255" /\ line.tail = "Paging expired"
new_transaction_of(line) == line.tail = "New transaction"
started_of(line) == line.event_time # None /\ line.started
bts_break_of(line) == line.tid = "255" /\ line.tail = "tx MNCC_REL_CNF"

\* the capture of template 5, " new state .+ -> (.+)$": the text from the
\* new state's name to the end of the line
to_state_of(line) ==
    IF line.to_state = "" \/ line.tail = "" THEN line.to_state
    ELSE line.to_state \o " " \o line.tail

\* the pre filter of _process_logs
pre_filter(line) ==
    /\ \/ line.started
       \/ (line.tail = "New transaction" /\ line.cc)
       \/ line.from_state # ""
       \/ (line.tail = "Paging expired" /\ line.cc)
       \/ (line.tid = "255" /\ line.tail = "tx MNCC_REL_CNF" /\ line.cc)
    /\ line.tid # "8"

NoEvent == CallStateEvent("", "", None)

EventLine(line, event, is_started_event) ==
    [kind |-> "event", imsi |-> line.imsi, callref |-> line.callref, tid |-> line.tid,
     event_time |-> line.event_time, event |-> event,
     is_started_event |-> is_started_event]

\* the branches of EventLine.create below the first two
create_rest(line) ==
    IF bts_break_of(line)
    THEN EventLine(line, CallStateEvent("BROKEN_BY_BTS", "NULL", line.event_time), FALSE)
    ELSE IF expired_of(line)
         THEN EventLine(line, CallStateEvent("NOT_AVAILABLE", "NULL", line.event_time), FALSE)
    ELSE IF line.from_state # "" /\ to_state_of(line) # ""
         THEN IF to_state_of(line) \in CallState /\ line.from_state \in CallState
              THEN EventLine(line, CallStateEvent(to_state_of(line), line.from_state,
                                                  line.event_time), FALSE)
              ELSE [kind |-> "raise", exc |-> "ValueError"]
    ELSE [kind |-> "raise", exc |-> "Unknown event"]

\* a slip that looks for the excluded callref after the new transaction
create_exclude_late(line) ==
    IF new_transaction_of(line)
    THEN EventLine(line, CallStateEvent("NULL", "NEW", line.event_time), FALSE)
    ELSE IF exclude_search(line) THEN [kind |-> "None"]
    ELSE IF started_of(line) THEN EventLine(line, NoEvent, TRUE)
    ELSE create_rest(line)

\* a slip that looks for the service's start before the new transaction
create_started_first(line) ==
    IF exclude_search(line) THEN [kind |-> "None"]
    ELSE IF started_of(line) THEN EventLine(line, NoEvent, TRUE)
    ELSE IF new_transaction_of(line)
         THEN EventLine(line, CallStateEvent("NULL", "NEW", line.event_time), FALSE)
    ELSE create_rest(line)

\* EventLine.create: [kind |-> "None"], an EventLine, or the exception raised
create(line) ==
    IF exclude_search(line) THEN [kind |-> "None"]
    ELSE IF new_transaction_of(line)
         THEN EventLine(line, CallStateEvent("NULL", "NEW", line.event_time), FALSE)
    ELSE IF started_of(line) THEN EventLine(line, NoEvent, TRUE)
    ELSE IF bts_break_of(line)
         THEN EventLine(line, CallStateEvent("BROKEN_BY_BTS", "NULL", line.event_time), FALSE)
    ELSE IF expired_of(line)
         THEN EventLine(line, CallStateEvent("NOT_AVAILABLE", "NULL", line.event_time), FALSE)
    ELSE IF line.from_state # "" /\ to_state_of(line) # ""
         THEN \* CallState(to_state), CallState(from_state): ValueError for a
              \* name that is no member of the enum
              IF to_state_of(line) \in CallState /\ line.from_state \in CallState
              THEN EventLine(line, CallStateEvent(to_state_of(line), line.from_state,
                                                  line.event_time), FALSE)
              ELSE [kind |-> "raise", exc |-> "ValueError"]
    ELSE [kind |-> "raise", exc |-> "Unknown event"]

(***************************************************************************)
(* Generations.  A dict is a sequence of entries in insertion order:       *)
(*   _logs      <<[imsi, calls]>>, calls = <<Call>> keyed by Call.callref  *)
(*   _all_logs  <<[start, end, logs]>> keyed by "{start}-{end}"; the key   *)
(*              of the open generation in the returned records is          *)
(*              "{start}-", end = None                                     *)
(***************************************************************************)
\* the least member of a set of positions (0: the set is empty): the first
\* entry a loop over a dict, or a key lookup, finds
First(S) == IF S = {} THEN 0 ELSE CHOOSE i \in S : \A j \in S : i <= j

\* position of imsi in logs (0: imsi not in logs)
ImsiIndex(logs, imsi) ==
    First({i \in 1..Len(logs) : logs[i].imsi = imsi})

\* a slip that looks for the callref among the calls and falls back on the
\* subscriber's first call
CallrefIndex_fallback(calls, callref) ==
    IF \E j \in 1..Len(calls) : calls[j].callref = callref
    THEN First({j \in 1..Len(calls) : calls[j].callref = callref})
    ELSE IF Len(calls) > 0 THEN 1 ELSE 0

\* position of callref in logs[imsi] (0: callref not in logs[imsi])
CallrefIndex(calls, callref) ==
    First({j \in 1..Len(calls) : calls[j].callref = callref})

\* a slip that archives under the later time alone
dict_set_end(all_logs, start, end, logs) ==
    LET i == First({k \in 1..Len(all_logs) :
                        all_logs[k].start = end /\ all_logs[k].end = end})
        entry == [start |-> end, end |-> end, logs |-> logs]
    IN  IF i = 0 THEN Append(all_logs, entry) ELSE [all_logs EXCEPT ![i] = entry]

\* all_logs[key] = logs: a present key keeps its place and gets the new value
dict_set(all_logs, start, end, logs) ==
    LET i == First({k \in 1..Len(all_logs) :
                        all_logs[k].start = start /\ all_logs[k].end = end})
        entry == [start |-> start, end |-> end, logs |-> logs]
    IN  IF i = 0 THEN Append(all_logs, entry) ELSE [all_logs EXCEPT ![i] = entry]

\* a slip that takes the last matching call instead of the first
SentinelIndex_last(calls, tid) ==
    LET S == {j \in 1..Len(calls) :
                 /\ calls[j].tid = tid
                 /\ get_last_state(calls[j]) \notin {"NULL", "BROKEN_BY_BTS", "NOT_AVAILABLE"}}
    IN  IF S = {} THEN 0 ELSE CHOOSE i \in S : \A j \in S : j <= i

\* a slip that matches on the transaction id alone
SentinelIndex_tid_only(calls, tid) ==
    First({j \in 1..Len(calls) : calls[j].tid = tid})

\* the first call of the subscriber that the callref "0" branch updates (0: none)
SentinelIndex(calls, tid) ==
    First({j \in 1..Len(calls) :
               /\ calls[j].tid = tid
               /\ get_last_state(calls[j]) \notin {"NULL", "BROKEN_BY_BTS", "NOT_AVAILABLE"}})

\* a loop body that lets a creating event replace the session already stored
\* under its callref instead of raising
process_event_overwrite(st, event) ==
    IF event.kind = "None" THEN st
    ELSE IF event.kind = "raise" THEN [st EXCEPT !.exc = event.exc]
    ELSE IF event.is_started_event
    THEN IF st.logs # <<>>
         THEN [st EXCEPT !.all_logs = dict_set(@, st.start_time, event.event_time, st.logs),
                         !.logs = <<>>,
                         !.start_time = event.event_time]
         ELSE [st EXCEPT !.start_time = event.event_time]
    ELSE IF event.event.prev_state = "NEW"
    THEN LET start_time == IF st.start_time # None THEN st.start_time ELSE event.event_time
             blank == Call(event.imsi, event.callref, event.tid)
             new_call == add_event(blank, event.event, event.tid)
             errors == st.errors \o save_error(blank, event.event)
             logs1 == IF ImsiIndex(st.logs, event.imsi) = 0
                      THEN Append(st.logs, [imsi |-> event.imsi, calls |-> <<>>])
                      ELSE st.logs
             i == ImsiIndex(logs1, event.imsi)
             j == CallrefIndex(logs1[i].calls, event.callref)
         IN  IF j # 0
             THEN [st EXCEPT !.start_time = start_time, !.errors = errors,
                             !.logs = [logs1 EXCEPT ![i].calls[j] = new_call]]
             ELSE [st EXCEPT !.start_time = start_time, !.errors = errors,
                             !.logs = [logs1 EXCEPT ![i].calls = Append(@, new_call)]]
    ELSE IF event.callref = <<"0">>
    THEN LET i == ImsiIndex(st.logs, event.imsi)
             j == IF i = 0 THEN 0 ELSE SentinelIndex(st.logs[i].calls, event.tid)
         IN  IF j = 0 THEN st
             ELSE [st EXCEPT !.errors = @ \o save_error(st.logs[i].calls[j], event.event),
                             !.logs[i].calls[j] = add_event(@, event.event, event.tid)]
    ELSE LET i == ImsiIndex(st.logs, event.imsi)
             j == IF i = 0 THEN 0 ELSE CallrefIndex(st.logs[i].calls, event.callref)
         IN  IF j = 0 THEN st
             ELSE [st EXCEPT !.errors = @ \o save_error(st.logs[i].calls[j], event.event),
                             !.logs[i].calls[j] = add_event(@, event.event, event.tid)]

\* the body of the loop of _process_logs for one line, after
\* event = EventLine.create(line), on the locals
\* st = [all_logs, logs, start_time, exc, errors]
process_event(st, event) ==
    IF event.kind = "None" THEN st
    ELSE IF event.kind = "raise" THEN [st EXCEPT !.exc = event.exc]
    ELSE IF event.is_started_event
    THEN IF st.logs # <<>>
         THEN [st EXCEPT !.all_logs = dict_set(@, st.start_time, event.event_time, st.logs),
                         !.logs = <<>>,
                         !.start_time = event.event_time]
         ELSE [st EXCEPT !.start_time = event.event_time]
    ELSE IF event.event.prev_state = "NEW"
    THEN LET start_time == IF st.start_time # None THEN st.start_time ELSE event.event_time
             blank == Call(event.imsi, event.callref, event.tid)
             new_call == add_event(blank, event.event, event.tid)
             errors == st.errors \o save_error(blank, event.event)
             logs1 == IF ImsiIndex(st.logs, event.imsi) = 0
                      THEN Append(st.logs, [imsi |-> event.imsi, calls |-> <<>>])
                      ELSE st.logs
             i == ImsiIndex(logs1, event.imsi)
         IN  IF CallrefIndex(logs1[i].calls, event.callref) # 0
             THEN [st EXCEPT !.exc = "Same callref", !.errors = errors]
             ELSE [st EXCEPT !.start_time = start_time, !.errors = errors,
                             !.logs = [logs1 EXCEPT ![i].calls = Append(@, new_call)]]
    ELSE IF event.callref = <<"0">>
    THEN LET i == ImsiIndex(st.logs, event.imsi)
             j == IF i = 0 THEN 0 ELSE SentinelIndex(st.logs[i].calls, event.tid)
         IN  IF j = 0 THEN st
             ELSE [st EXCEPT !.errors = @ \o save_error(st.logs[i].calls[j], event.event),
                             !.logs[i].calls[j] = add_event(@, event.event, event.tid)]
    ELSE LET i == ImsiIndex(st.logs, event.imsi)
             j == IF i = 0 THEN 0 ELSE CallrefIndex(st.logs[i].calls, event.callref)
         IN  IF j = 0 THEN st
             ELSE [st EXCEPT !.errors = @ \o save_error(st.logs[i].calls[j], event.event),
                             !.logs[i].calls[j] = add_event(@, event.event, event.tid)]

\* the body of the loop of _process_logs for one line
process_line(st, line) == process_event(st, create(line))

RECURSIVE process_lines(_, _, _)
\* the loop of _process_logs from line k on; an exception ends it
process_lines(st, lines, k) ==
    IF k > Len(lines) \/ st.exc # "None" THEN st
    ELSE process_lines(process_line(st, lines[k]), lines, k + 1)

\* a slip that exposes the open generation when it is empty, too
records_of_always(all_logs, logs, start_time) ==
    dict_set(all_logs, start_time, None, logs)

\* the records _process_logs returns: the archive plus the open generation
records_of(all_logs, logs, start_time) ==
    IF logs # <<>> THEN dict_set(all_logs, start_time, None, logs) ELSE all_logs

\* what _process_logs leaves and returns when its loop ended in st: the
\* exception raised ("None": none), the object afterwards, the returned
\* records and the entries written to calls_error.log
process_logs_end(obj, st) ==
    [exc |-> st.exc,
     errors |-> st.errors,
     obj |-> IF st.exc # "None" THEN obj
             ELSE [obj EXCEPT !.all_logs = st.all_logs, !.logs = st.logs,
                              !.start_time = st.start_time],
     records |-> IF st.exc # "None" THEN <<>>
                 ELSE records_of(st.all_logs, st.logs, st.start_time)]

\* CallTimestamp._process_logs on the object obj
_process_logs(obj, lines) ==
    process_logs_end(obj,
        process_lines([all_logs |-> obj.all_logs, logs |-> obj.logs,
                       start_time |-> obj.start_time, exc |-> "None",
                       errors |-> <<>>],
                      SelectSeq(lines, pre_filter), 1))

(***************************************************************************)
(* CallTimestamp: the pickled object                                       *)
(*   [status, call_start, call_stop, last_call_log_since,                  *)
(*    last_call_log_until, all_logs, logs, start_time]                     *)
(***************************************************************************)
WORK_STATUS == "work"
STOP_STATUS == "stop"
\* timedelta(seconds=30) of get_log
Grace == 30

\* the else branch of CallTimestamp.__init__: no state file yet
DefaultObj ==
    [status |-> STOP_STATUS, call_start |-> None, call_stop |-> None,
     last_call_log_since |-> None, last_call_log_until |-> None,
     all_logs |-> <<>>, logs |-> <<>>, start_time |-> None]

\* a slip that starts the phase anew while it is on
start_calls_again(obj, dt) ==
    [obj |-> [obj EXCEPT !.status = WORK_STATUS, !.call_start = dt,
                         !.call_stop = None,
                         !.last_call_log_since = dt,
                         !.last_call_log_until = dt],
     dump |-> TRUE]

\* CallTimestamp.start_calls with dt = datetime.now(); dump: _dump is called
start_calls(obj, dt) ==
    IF obj.status = WORK_STATUS THEN [obj |-> obj, dump |-> FALSE]
    ELSE [obj |-> [obj EXCEPT !.status = WORK_STATUS, !.call_start = dt,
                              !.call_stop = None,
                              !.last_call_log_since = dt,
                              !.last_call_log_until = dt],
          dump |-> TRUE]

\* a stop that rewinds the window to the start of the collection
stop_calls_rewind(obj, dt) ==
    [obj |-> [obj EXCEPT !.status = STOP_STATUS, !.call_stop = dt,
                         !.last_call_log_since = obj.call_start,
                         !.last_call_log_until = obj.call_start],
     dump |-> TRUE]

\* CallTimestamp.stop_calls with dt = datetime.now()
stop_calls(obj, dt) ==
    [obj |-> [obj EXCEPT !.status = STOP_STATUS, !.call_stop = dt], dump |-> TRUE]

\* an upper bound that is not clamped to the clock
until_of_unclamped(obj, n1, n2, n3) ==
    IF obj.status = WORK_STATUS THEN n1 ELSE obj.call_stop + Grace

\* the upper bound get_log computes; n1, n2, n3 are its three readings of
\* datetime.now(), in program order
until_of(obj, n1, n2, n3) ==
    LET until == IF obj.status = WORK_STATUS THEN n1 ELSE obj.call_stop + Grace
    IN  IF n2 > until THEN until ELSE n3

\* whether get_log fetches: since < until
fetches(obj, n1, n2, n3) ==
    /\ obj.last_call_log_until # None
    /\ (obj.status = WORK_STATUS \/ obj.call_stop # None)
    /\ obj.last_call_log_until < until_of(obj, n1, n2, n3)

NoWindow == <<>>

\* a slip that saves the state also when _process_logs raised
get_log_end_saves(r, window) ==
    [obj |-> r.obj, dump |-> TRUE, exc |-> r.exc, errors |-> r.errors,
     records |-> r.records, window |-> window]

\* the end of get_log after _process_logs gave r: _dump unless it raised
get_log_end(r, window) ==
    [obj |-> r.obj, dump |-> r.exc = "None", exc |-> r.exc, errors |-> r.errors,
     records |-> r.records, window |-> window]

\* get_log without _process_logs and _dump: it returns [] or raises
get_log_early(obj, exc) ==
    [obj |-> obj, dump |-> FALSE, exc |-> exc, errors |-> <<>>,
     records |-> <<>>, window |-> NoWindow]

\* CallTimestamp.get_log; lines is what journalctl prints for the window
\* (read only when since < until).  exc: the exception that ends the call
\* ("None": it returns); dump: _dump is reached; window: the fetched window
get_log(obj, n1, n2, n3, lines) ==
    IF obj.last_call_log_until = None
    THEN get_log_early(obj, "None")
    ELSE IF obj.status # WORK_STATUS /\ obj.call_stop = None
    THEN \* None + timedelta
         get_log_early(obj, "TypeError")
    ELSE IF obj.last_call_log_until < until_of(obj, n1, n2, n3)
    THEN get_log_end(
             _process_logs([obj EXCEPT !.last_call_log_since = obj.last_call_log_until,
                                       !.last_call_log_until = until_of(obj, n1, n2, n3)],
                           lines),
             <<obj.last_call_log_until, until_of(obj, n1, n2, n3)>>)
    ELSE get_log_end(_process_logs(obj, <<>>), NoWindow)

(***************************************************************************)
(* The log store (journalctl -u osmo-msc --since --until): the lines of    *)
(* a window [since, until), in emission order.  The lines the model draws  *)
(* from are those of one subscriber's calls and of the service.            *)
(***************************************************************************)
Excluded == <<"8", "0", "0", "0", "0", "0", "0", "1">>

LinesAt(t) ==
    {NewTransactionLine(t, "111", <<"1">>, "1"),
     NewTransactionLine(t, "111", <<"2">>, "2"),
     NewTransactionLine(t, "111", Excluded, "1"),
     NewStateLine(t, "111", <<"1">>, "1", "NULL", "CALL_PRESENT"),
     NewStateLine(t, "111", <<"1">>, "1", "CALL_PRESENT", "ACTIVE"),
     NewStateLine(t, "111", <<"1">>, "1", "NULL", "INITIATED"),
     StartedLine(t),
     PagingExpiredLine(t, "111", "255")}

\* the emission times the model draws from in a window: its first second
WindowTimes(since, until) == {since}

\* the lines SpecConc draws from: one call's creation and its first transition
ConcLinesAt(t) ==
    {NewTransactionLine(t, "111", <<"1">>, "1"),
     NewStateLine(t, "111", <<"1">>, "1", "NULL", "CALL_PRESENT")}

\* what a fetch of [since, until) can return, the lines being those of
\* LinesAt (all = TRUE) or of ConcLinesAt
FetchOf(all, since, until) ==
    LET pool == UNION {IF all THEN LinesAt(t) ELSE ConcLinesAt(t) :
                          t \in WindowTimes(since, until)}
    IN  {lines \in UNION {[1..n -> pool] : n \in 0..MaxLines} :
            \A i \in 1..Len(lines) : \A j \in i..Len(lines) :
                lines[i].event_time <= lines[j].event_time}

Fetch(since, until) == FetchOf(TRUE, since, until)
ConcFetch(since, until) == FetchOf(FALSE, since, until)

\* the lines bring a session-creating event (prev_state NEW) for an (imsi,
\* callref) that the open generation holds when the event arrives
Collides(obj, lines) ==
    LET filtered == SelectSeq(lines, pre_filter)
        st0 == [all_logs |-> obj.all_logs, logs |-> obj.logs,
                start_time |-> obj.start_time, exc |-> "None", errors |-> <<>>]
    IN  \E k \in 1..Len(filtered) :
           LET st == process_lines(st0, SubSeq(filtered, 1, k - 1), 1)
               line == filtered[k]
           IN  /\ st.exc = "None"
               /\ ~exclude_search(line)
               /\ new_transaction_of(line)
               /\ \E i \in 1..Len(st.logs) :
                     /\ st.logs[i].imsi = line.imsi
                     /\ \E j \in 1..Len(st.logs[i].calls) :
                           st.logs[i].calls[j].callref = line.callref

(***************************************************************************)
(* The state file.  state: "absent" (no file), "complete" (a whole pickle) *)
(* or "torn" (truncated, or a pickle written in part); obj: the object of  *)
(* the last whole pickle written (DefaultObj before the first).            *)
(***************************************************************************)
Complete(obj) == [state |-> "complete", obj |-> obj]

\* CallTimestamp.__init__ on a file that is absent or complete: the object
Construct(f) == IF f.state = "absent" THEN DefaultObj ELSE f.obj

NoProc == 0
Procs == {1, 2}

\* a process's position: at (the step it is about to take), op (the method
\* its invocation calls) and after (where its _dump returns to: "run" for
\* the _dump of __init__, "done" for the method's own)
At(at, op, after) == [at |-> at, op |-> op, after |-> after]
Idle == At("idle", "none", "done")

\* the record of the invocation that ended last: op (its method), exc (the
\* exception that ended it, "None": it returned, "killed": the process was
\* killed), collides (the lines it fetched brought a session-creating
\* event for a session of the open generation) and fetch (what became of
\* its journalctl call: "none": not called, "failed": it exited with an
\* error and printed nothing, "empty": it printed no line, "lines")
Ended(op, exc, collides, fetch) ==
    [op |-> op, exc |-> exc, collides |-> collides, fetch |-> fetch]

\* the fetch of a journalctl call that printed lines
Fetched(lines) == IF lines = <<>> THEN "empty" ELSE "lines"

\* SpecFold: the stored object and what the last status query did
\*   obj      the CallTimestamp object as saved
\*   t        the second the last fetched line is stamped with
\*   n        the queries run so far
\*   fed      history: "create" / "started" for each creating line and each
\*            restart marker folded so far, in order
\*   lines    the lines the query's get_log fetched
\*   op       the query, "none" before the first
\*   exc      the exception it ended with ("None": it returned)
\*   records  what its get_log returned
\*   result   what the query returned
\*   archived history: the generation the fold archived last (<<>>: none yet)
Answered(obj, t, n, fed, lines, op, exc, records, result, archived) ==
    [obj |-> obj, t |-> t, n |-> n, fed |-> fed, lines |-> lines, op |-> op,
     exc |-> exc, records |-> records, result |-> result, archived |-> archived]

\* SpecLines: the stored object and what the last _process_logs did
\*   obj      the CallTimestamp object as saved
\*   n        the lines folded so far, one _process_logs each
\*   lines    the lines of the last _process_logs
\*   event    what EventLine.create makes of that line (NoClass: no line yet)
\*   exc      the exception the last _process_logs ended with ("None": none)
Processed(obj, n, lines, event, exc) ==
    [obj |-> obj, n |-> n, lines |-> lines, event |-> event, exc |-> exc]

NoClass == [kind |-> "none"]

\* SpecJournal: what journalctl has shown of the journal
\*   emitted  the lines stamped with second k, for every second k a fetch
\*            has read so far (none or one line a second)
\*   aborted  history: the get_log invocations that raised
Journal(emitted, aborted) == [emitted |-> emitted, aborted |-> aborted]

\* SpecPair: two sessions of one subscriber and the last add_event
\*   a, b   the two Call objects
\*   fed    history: which of them the last step fed: "made" (both got
\*          their creating event), "a", "b", "both" (both got the same
\*          event); "none": the objects have no event yet
Fed(a, b, fed) == [a |-> a, b |-> b, fed |-> fed]

InitAll ==
    /\ call = Call("111", <<"1">>, "1")
    /\ calls_error_log = <<>>
    /\ now = 1
    /\ ticks = 0
    /\ runs = 0
    /\ file = [state |-> "absent", obj |-> DefaultObj]
    /\ last = Ended("none", "None", FALSE, "none")
    /\ commits = <<>>
    /\ lock = NoProc
    /\ pc = [p \in Procs |-> Idle]
    /\ self = [p \in Procs |-> DefaultObj]
    /\ base = [p \in Procs |-> DefaultObj]
    /\ win = [p \in Procs |-> NoWindow]
    /\ fold = Answered(DefaultObj, 1, 0, <<>>, <<>>, "none", "None", <<>>, <<>>, <<>>)
    /\ reg = Processed(DefaultObj, 0, <<>>, NoClass, "None")
    /\ journal = Journal(<<>>, 0)
    /\ twins = Fed(Call("111", <<"1">>, "1"), Call("111", <<"2">>, "1"), "none")

\* what SpecCall, SpecChain and Spec leave alone: the variables of SpecConc,
\* SpecFold, SpecLines, SpecJournal and SpecPair
ConcVars == <<lock, pc, self, base, win, fold, reg, journal, twins>>
PipeVars == <<now, ticks, runs, file, last, commits>>

(***************************************************************************)
(* SpecCall: one Call fed events, as _process_logs feeds it: first the     *)
(* creating event NEW -> NULL, then any (prev_state, state) pair.          *)
(***************************************************************************)
CallCreate ==
    /\ Len(call.events) = 0
    /\ LET event == CallStateEvent("NULL", "NEW", 1)
       IN  /\ call' = add_event(call, event, call.tid)
           /\ calls_error_log' = calls_error_log \o save_error(call, event)
    /\ UNCHANGED <<PipeVars, ConcVars>>

CallAddEvent ==
    /\ Len(call.events) >= 1
    /\ Len(call.events) < MaxCallEvents
    /\ \E prev_state \in CallState, state \in CallState :
          LET event == CallStateEvent(state, prev_state, Len(call.events) + 1)
          IN  /\ call' = add_event(call, event, call.tid)
              /\ calls_error_log' = calls_error_log \o save_error(call, event)
    /\ UNCHANGED <<PipeVars, ConcVars>>

NextCall == CallCreate \/ CallAddEvent

SpecCall == InitAll /\ [][NextCall]_vars

(***************************************************************************)
(* SpecChain: one Call fed events whose pairs follow one another as the    *)
(* log of one call does: the creating event NEW -> NULL, then events whose *)
(* prev_state is the state of the event before and whose pair is a key of  *)
(* Call._statuses.                                                         *)
(***************************************************************************)
ChainAddEvent ==
    /\ Len(call.events) >= 1
    /\ Len(call.events) < MaxChainEvents
    /\ \E state \in CallState :
          LET event == CallStateEvent(state, get_last_state(call), Len(call.events) + 1)
          IN  /\ <<event.prev_state, event.state>> \in DOMAIN _statuses
              /\ call' = add_event(call, event, call.tid)
              /\ calls_error_log' = calls_error_log \o save_error(call, event)
    /\ UNCHANGED <<PipeVars, ConcVars>>

NextChain == CallCreate \/ ChainAddEvent

SpecChain == InitAll /\ [][NextChain]_vars

(***************************************************************************)
(* SpecPair: two Calls of one subscriber, made by two creating events as   *)
(* _process_logs makes them; each is then fed events of its own, the       *)
(* first Call before the second (the two objects share nothing), and at    *)
(* the end both are fed the same event.  The events are those whose pair   *)
(* is a key of Call._statuses and two whose pair is not.                   *)
(***************************************************************************)
PairEvents == DOMAIN _statuses \cup {<<"NULL", "ACTIVE">>, <<"ACTIVE", "NULL">>}

\* what add_event makes of session s when it gets the pair key
PairAdd(s, key) == add_event(s, CallStateEvent(key[2], key[1], Len(s.events) + 1), s.tid)

PairFrame ==
    UNCHANGED <<call, calls_error_log, PipeVars, lock, pc, self, base, win, fold, reg, journal>>

PairCreate ==
    /\ twins.fed = "none"
    /\ twins' = Fed(PairAdd(twins.a, <<"NEW", "NULL">>), PairAdd(twins.b, <<"NEW", "NULL">>),
                    "made")
    /\ PairFrame

PairFeedOne ==
    /\ twins.fed \in {"made", "a", "b"}
    /\ \E key \in PairEvents :
          \/ /\ twins.fed # "b"
             /\ Len(twins.a.events) < 1 + MaxPairSolo
             /\ twins' = Fed(PairAdd(twins.a, key), twins.b, "a")
          \/ /\ Len(twins.b.events) < 1 + MaxPairSolo
             /\ twins' = Fed(twins.a, PairAdd(twins.b, key), "b")
    /\ PairFrame

PairFeedBoth ==
    /\ twins.fed \in {"made", "a", "b"}
    /\ \E key \in PairEvents :
          twins' = Fed(PairAdd(twins.a, key), PairAdd(twins.b, key), "both")
    /\ PairFrame

NextPair == PairCreate \/ PairFeedOne \/ PairFeedBoth

SpecPair == InitAll /\ [][NextPair]_vars

(***************************************************************************)
(* Spec: invocations CallTimestamp().start_calls(), .stop_calls() and      *)
(* .get_log() run one after the other, each to its end, while the clock    *)
(* advances.                                                               *)
(***************************************************************************)
Tick ==
    /\ ticks < MaxTicks
    /\ \E d \in {1, Grace} : now' = now + d
    /\ ticks' = ticks + 1
    /\ UNCHANGED <<call, calls_error_log, runs, file, last, commits, ConcVars>>

StartCalls ==
    /\ runs < MaxRuns
    /\ file.state # "torn"
    /\ LET obj == Construct(file)
           r == start_calls(obj, now)
       IN  /\ file' = Complete(r.obj)
           /\ last' = Ended("start_calls", "None", FALSE, "none")
    /\ runs' = runs + 1
    /\ UNCHANGED <<call, calls_error_log, now, ticks, commits, ConcVars>>

StopCalls ==
    /\ runs < MaxRuns
    /\ file.state # "torn"
    /\ LET obj == Construct(file)
           r == stop_calls(obj, now)
       IN  /\ file' = Complete(r.obj)
           /\ last' = Ended("stop_calls", "None", FALSE, "none")
    /\ runs' = runs + 1
    /\ UNCHANGED <<call, calls_error_log, now, ticks, commits, ConcVars>>

\* the effect of CallTimestamp().get_log() with result r on an object obj
\* that __init__ made
GetLogDone(obj, r, collides, fetch) ==
    /\ file' = IF r.dump THEN Complete(r.obj) ELSE Complete(obj)
    /\ last' = Ended("get_log", r.exc, collides, fetch)
    /\ calls_error_log' = calls_error_log \o r.errors
    /\ commits' = IF r.dump /\ r.window # NoWindow
                  THEN Append(commits, r.window) ELSE commits

\* the step CallTimestamp().get_log() takes from file f at clock n1 when the
\* clock reads n2 and n3 later in it and journalctl prints lines, fetch
\* being what became of the journalctl call.  subprocess.run is called
\* without check and its returncode is not read: a journalctl that fails
\* leaves an empty stdout, which get_log reads as no lines
GetLogStep(f, n1, n2, n3, lines, fetch) ==
    /\ GetLogDone(Construct(f), get_log(Construct(f), n1, n2, n3, lines),
                  Collides(Construct(f), lines), fetch)
    /\ now' = n3

\* the readings (n2, n3) of the clock that follow a first reading n1 in one
\* get_log: at most one second boundary passes between the three
Readings(n1) == {<<n1, n1>>, <<n1, n1 + 1>>, <<n1 + 1, n1 + 1>>}

GetLog ==
    /\ runs < MaxRuns
    /\ file.state # "torn"
    /\ \E n \in Readings(now) :
          /\ ticks + (n[2] - now) <= MaxTicks
          /\ ticks' = ticks + (n[2] - now)
          /\ LET obj == Construct(file)
             IN  IF fetches(obj, now, n[1], n[2])
                 THEN \/ \E lines \in Fetch(obj.last_call_log_until,
                                            until_of(obj, now, n[1], n[2])) :
                            GetLogStep(file, now, n[1], n[2], lines, Fetched(lines))
                      \/ GetLogStep(file, now, n[1], n[2], <<>>, "failed")
                 ELSE GetLogStep(file, now, n[1], n[2], <<>>, "none")
    /\ runs' = runs + 1
    /\ UNCHANGED <<call, ConcVars>>

Next == Tick \/ StartCalls \/ StopCalls \/ GetLog

Spec == InitAll /\ [][Next]_vars

(***************************************************************************)
(* SpecConc: processes that each run one invocation at a time,             *)
(* CallTimestamp().start_calls(), .stop_calls() or .get_log(), step by     *)
(* step on the shared state file and its fcntl lock, and may be killed at  *)
(* any step.                                                               *)
(*   isfile      os.path.isfile(state_file) in __init__                    *)
(*   load_open   AtomicOpen(state_file, "rb"): open; the file is not       *)
(*               writable, so lockf is not called                          *)
(*   load_read   pickle.load; an exception sends the loop back to the open *)
(*   run         the method body, up to its _dump                          *)
(*   dump_open   AtomicOpen(dump_file, "wb"): open truncates the file      *)
(*   dump_lock   fcntl.lockf(LOCK_EX), waiting for the lock                *)
(*   dump_write  pickle.dump, then flush and fsync of __exit__; the pickle *)
(*               reaches the file at once, or a first part of it before    *)
(*               the rest (dump_rest; dump_hole when another open          *)
(*               truncated the file between the two)                       *)
(*   dump_unlock lockf(LOCK_UN) and close                                  *)
(* Of an invocation that ended, last records here op and exc only.         *)
(***************************************************************************)
Ops == {"start_calls", "stop_calls", "get_log"}

ConcFrame == UNCHANGED <<call, now, ticks, fold, reg, journal, twins>>

Begin(p) ==
    /\ pc[p].at = "idle"
    /\ runs < MaxConcRuns
    /\ \E op \in Ops : pc' = [pc EXCEPT ![p] = At("isfile", op, "done")]
    /\ runs' = runs + 1
    /\ UNCHANGED <<calls_error_log, file, last, commits, lock, self, base, win>>
    /\ ConcFrame

IsFile(p) ==
    /\ pc[p].at = "isfile"
    /\ IF file.state = "absent"
       THEN /\ self' = [self EXCEPT ![p] = DefaultObj]
            /\ base' = [base EXCEPT ![p] = DefaultObj]
            /\ pc' = [pc EXCEPT ![p] = At("dump_open", pc[p].op, "run")]
       ELSE /\ pc' = [pc EXCEPT ![p] = At("load_open", pc[p].op, "done")]
            /\ UNCHANGED <<self, base>>
    /\ UNCHANGED <<calls_error_log, runs, file, last, commits, lock, win>>
    /\ ConcFrame

LoadOpen(p) ==
    /\ pc[p].at = "load_open"
    /\ pc' = [pc EXCEPT ![p].at = "load_read"]
    /\ UNCHANGED <<calls_error_log, runs, file, last, commits, lock, self, base, win>>
    /\ ConcFrame

\* a load that takes a failed read for a missing file and goes on with the
\* default state
LoadRead_default(p) ==
    /\ pc[p].at = "load_read"
    /\ self' = [self EXCEPT ![p] = IF file.state = "complete" THEN file.obj
                                   ELSE DefaultObj]
    /\ base' = [base EXCEPT ![p] = IF file.state = "complete" THEN file.obj
                                   ELSE DefaultObj]
    /\ pc' = [pc EXCEPT ![p].at = "run"]
    /\ UNCHANGED <<calls_error_log, runs, file, last, commits, lock, win>>
    /\ ConcFrame

LoadRead(p) ==
    /\ pc[p].at = "load_read"
    /\ IF file.state = "complete"
       THEN /\ self' = [self EXCEPT ![p] = file.obj]
            /\ base' = [base EXCEPT ![p] = file.obj]
            /\ pc' = [pc EXCEPT ![p].at = "run"]
       ELSE \* pickle.load raises on an empty or partly written file: except, pass
            /\ pc' = [pc EXCEPT ![p].at = "load_open"]
            /\ UNCHANGED <<self, base>>
    /\ UNCHANGED <<calls_error_log, runs, file, last, commits, lock, win>>
    /\ ConcFrame

\* the end of the method body of p with result r: on to _dump, or the end of
\* the invocation (it returned without _dump, or raised)
Ran(p, r, window) ==
    /\ IF r.dump
       THEN /\ self' = [self EXCEPT ![p] = r.obj]
            /\ win' = [win EXCEPT ![p] = window]
            /\ pc' = [pc EXCEPT ![p] = At("dump_open", pc[p].op, "done")]
            /\ UNCHANGED last
       ELSE /\ pc' = [pc EXCEPT ![p] = Idle]
            /\ last' = Ended(pc[p].op, r.exc, FALSE, "none")
            /\ self' = [self EXCEPT ![p] = DefaultObj]
            /\ UNCHANGED win
    /\ base' = IF r.dump THEN base ELSE [base EXCEPT ![p] = DefaultObj]
    /\ calls_error_log' = calls_error_log \o r.errors

\* the end of get_log in p with result r
RanGetLog(p, r) == Ran(p, r, r.window)

RunStartStop(p) ==
    /\ pc[p].at = "run"
    /\ pc[p].op \in {"start_calls", "stop_calls"}
    /\ LET r == IF pc[p].op = "start_calls" THEN start_calls(self[p], now)
                ELSE stop_calls(self[p], now)
       IN  Ran(p, [obj |-> r.obj, dump |-> r.dump, exc |-> "None", errors |-> <<>>],
               NoWindow)
    /\ UNCHANGED <<call, now, ticks, runs, file, commits, lock, fold, reg, journal, twins>>

RunGetLog(p) ==
    /\ pc[p].at = "run"
    /\ pc[p].op = "get_log"
    /\ \E n \in Readings(now) :
          /\ ticks + (n[2] - now) <= MaxTicks
          /\ ticks' = ticks + (n[2] - now)
          /\ now' = n[2]
          /\ IF fetches(self[p], now, n[1], n[2])
             THEN \E lines \in ConcFetch(self[p].last_call_log_until,
                                         until_of(self[p], now, n[1], n[2])) :
                     RanGetLog(p, get_log(self[p], now, n[1], n[2], lines))
             ELSE RanGetLog(p, get_log(self[p], now, n[1], n[2], <<>>))
    /\ UNCHANGED <<call, runs, file, commits, lock, fold, reg, journal, twins>>

DumpOpen(p) ==
    /\ pc[p].at = "dump_open"
    /\ file' = [file EXCEPT !.state = "torn"]
    /\ pc' = [q \in Procs |->
                 IF q = p THEN [pc[p] EXCEPT !.at = "dump_lock"]
                 ELSE IF pc[q].at = "dump_rest" THEN [pc[q] EXCEPT !.at = "dump_hole"]
                 ELSE pc[q]]
    /\ UNCHANGED <<calls_error_log, runs, last, commits, lock, self, base, win>>
    /\ ConcFrame

DumpLock(p) ==
    /\ pc[p].at = "dump_lock"
    /\ lock = NoProc
    /\ lock' = p
    /\ pc' = [pc EXCEPT ![p].at = "dump_write"]
    /\ UNCHANGED <<calls_error_log, runs, file, last, commits, self, base, win>>
    /\ ConcFrame

\* the whole pickle of p's object is in the file: the save is complete
Written(p) ==
    /\ file' = Complete(self[p])
    /\ base' = [base EXCEPT ![p] = self[p]]
    /\ commits' = IF win[p] # NoWindow THEN Append(commits, win[p]) ELSE commits
    /\ win' = [win EXCEPT ![p] = NoWindow]
    /\ pc' = [pc EXCEPT ![p].at = "dump_unlock"]

DumpWrite(p) ==
    /\ pc[p].at = "dump_write"
    /\ Written(p)
    /\ UNCHANGED <<calls_error_log, runs, last, lock, self>>
    /\ ConcFrame

DumpWritePart(p) ==
    /\ pc[p].at = "dump_write"
    /\ file' = [file EXCEPT !.state = "torn"]
    /\ pc' = [pc EXCEPT ![p].at = "dump_rest"]
    /\ UNCHANGED <<calls_error_log, runs, last, commits, lock, self, base, win>>
    /\ ConcFrame

DumpWriteRest(p) ==
    /\ pc[p].at \in {"dump_rest", "dump_hole"}
    /\ IF pc[p].at = "dump_rest"
       THEN Written(p)
       ELSE \* the rest lands behind a hole left by the other open's truncation
            /\ file' = [file EXCEPT !.state = "torn"]
            /\ win' = [win EXCEPT ![p] = NoWindow]
            /\ pc' = [pc EXCEPT ![p].at = "dump_unlock"]
            /\ UNCHANGED <<base, commits>>
    /\ UNCHANGED <<calls_error_log, runs, last, lock, self>>
    /\ ConcFrame

DumpUnlock(p) ==
    /\ pc[p].at = "dump_unlock"
    /\ lock' = NoProc
    /\ IF pc[p].after = "run"
       THEN /\ pc' = [pc EXCEPT ![p] = At("run", pc[p].op, "done")]
            /\ UNCHANGED last
            /\ UNCHANGED <<self, base>>
       ELSE /\ pc' = [pc EXCEPT ![p] = Idle]
            /\ last' = Ended(pc[p].op, "None", FALSE, "none")
            /\ self' = [self EXCEPT ![p] = DefaultObj]
            /\ base' = [base EXCEPT ![p] = DefaultObj]
    /\ UNCHANGED <<calls_error_log, runs, file, commits, win>>
    /\ ConcFrame

\* the process is killed; its memory is gone and the kernel drops its lock
Crash(p) ==
    /\ pc[p].at # "idle"
    /\ pc' = [pc EXCEPT ![p] = Idle]
    /\ lock' = IF lock = p THEN NoProc ELSE lock
    /\ win' = [win EXCEPT ![p] = NoWindow]
    /\ last' = Ended(pc[p].op, "killed", FALSE, "none")
    /\ self' = [self EXCEPT ![p] = DefaultObj]
    /\ base' = [base EXCEPT ![p] = DefaultObj]
    /\ UNCHANGED <<calls_error_log, runs, file, commits>>
    /\ ConcFrame

ConcTick ==
    /\ Tick

NextConc ==
    \/ ConcTick
    \/ \E p \in Procs :
          \/ Begin(p) \/ IsFile(p) \/ LoadOpen(p) \/ LoadRead(p)
          \/ RunStartStop(p) \/ RunGetLog(p)
          \/ DumpOpen(p) \/ DumpLock(p) \/ DumpWrite(p) \/ DumpWritePart(p)
          \/ DumpWriteRest(p) \/ DumpUnlock(p) \/ Crash(p)

SpecConc == InitAll /\ [][NextConc]_vars


(***************************************************************************)
(* SpecFold: the status queries of Sdr on the generations _process_logs    *)
(* folds the fetched lines into.  Every query fetches no line or one; the  *)
(* seconds the lines are stamped with never go back.  The fold carries     *)
(* all_logs, logs and start_time from run to run in the saved object, so   *)
(* lines fetched one by one leave what the same lines fetched at once      *)
(* leave.  The window of the fetch is the subject of Spec.                 *)
(***************************************************************************)
\* Sdr.calls_status: status_filter
status_filter == {"NOT_AVAILABLE", "RINGING", "ACTIVE", "REJECT_BY_USER", "HANGUP"}

\* all_statuses of calls_status: the statuses of all calls of one subscriber
all_statuses(calls) ==
    UNION {{calls[j].statuses[k] : k \in 1..Len(calls[j].statuses)} : j \in 1..Len(calls)}

\* a slip that takes the first key of the records
first_record(records) == records[1].logs

\* records[list(records.keys())[-1]]
last_record(records) == records[Len(records)].logs

\* a slip that looks at the first call of every subscriber only
calls_status_first_call(records) ==
    IF Len(records) > 0
    THEN [i \in 1..Len(last_record(records)) |->
             [imsi |-> last_record(records)[i].imsi,
              statuses |-> status_filter
                             \cap all_statuses(SubSeq(last_record(records)[i].calls, 1, 1))]]
    ELSE <<>>

\* Sdr.calls_status on the records its get_log returned: result_records, one
\* entry per subscriber in insertion order; list(set) has no order of its
\* own, the entry holds the set
calls_status(records) ==
    IF Len(records) > 0
    THEN [i \in 1..Len(last_record(records)) |->
             [imsi |-> last_record(records)[i].imsi,
              statuses |-> status_filter \cap all_statuses(last_record(records)[i].calls)]]
    ELSE <<>>

\* Sdr.calls_status_show on the records its get_log returned
calls_status_show(records) ==
    IF Len(records) > 0
    THEN [i \in 1..Len(last_record(records)) |->
             [imsi |-> last_record(records)[i].imsi,
              statuses |-> [j \in 1..Len(last_record(records)[i].calls) |->
                               last_record(records)[i].calls[j].status]]]
    ELSE <<>>

\* the lines a fetch can return that are stamped with second t
FoldLinesAt(t) ==
    {NewTransactionLine(t, "111", <<"1">>, "1"),
     NewTransactionLine(t, "111", <<"2">>, "2"),
     NewTransactionLine(t, "222", <<"1">>, "1"),
     StartedLine(t),
     NewStateLine(t, "111", <<"1">>, "1", "CONNECT_REQUEST", "ACTIVE"),
     NewStateLine(t, "111", <<"2">>, "2", "CONNECT_REQUEST", "ACTIVE")}

\* what a fetch can return: nothing, or one line of the second of the last
\* line or of a later second
FoldFetch == {<<>>} \cup {<<line>> : line \in UNION {FoldLinesAt(t) : t \in fold.t..MaxFoldTime}}

\* what the fold of the fetched lines adds to the history
Folded(lines) ==
    IF lines = <<>> \/ create(lines[1]).kind # "event" THEN <<>>
    ELSE IF create(lines[1]).is_started_event THEN <<"started">>
    ELSE IF create(lines[1]).event.prev_state = "NEW" THEN <<"create">>
    ELSE <<>>

\* the end of the query op whose get_log fetched lines and folded them with
\* the outcome r: an exception of the fold leaves the query and nothing is
\* saved
QueryDone(op, lines, r) ==
    /\ fold' = Answered(r.obj,
                        IF lines = <<>> THEN fold.t ELSE lines[1].event_time,
                        fold.n + 1,
                        IF r.exc = "None" THEN fold.fed \o Folded(lines) ELSE fold.fed,
                        lines, op, r.exc, r.records,
                        IF r.exc # "None" THEN <<>>
                        ELSE IF op = "calls_status" THEN calls_status(r.records)
                        ELSE calls_status_show(r.records),
                        IF r.exc = "None" /\ Folded(lines) = <<"started">>
                           /\ fold.obj.logs # <<>>
                        THEN fold.obj.logs ELSE fold.archived)
    /\ calls_error_log' = calls_error_log \o r.errors
    /\ UNCHANGED <<call, PipeVars, lock, pc, self, base, win, reg, journal, twins>>

\* Sdr.calls_status
CallsStatus ==
    /\ fold.n < MaxFoldRuns
    /\ \E lines \in FoldFetch :
          QueryDone("calls_status", lines, _process_logs(fold.obj, lines))

\* Sdr.calls_status_show
CallsStatusShow ==
    /\ fold.n < MaxFoldRuns
    /\ \E lines \in FoldFetch :
          QueryDone("calls_status_show", lines, _process_logs(fold.obj, lines))

NextFold == CallsStatus \/ CallsStatusShow

SpecFold == InitAll /\ [][NextFold]_vars


(***************************************************************************)
(* SpecLines: _process_logs on one fetched line after the other.  Line k   *)
(* of the journal is stamped with second k.  The lines before the last are *)
(* those of one subscriber's two calls and of the service; the last line   *)
(* may also be any combination of the markers the templates look for.      *)
(***************************************************************************)
\* the lines of two calls of subscriber 111, both paged (tid 255), and of the
\* service, stamped with second t
RouteLinesAt(t) ==
    {NewTransactionLine(t, "111", <<"1">>, "255"),
     NewTransactionLine(t, "111", <<"2">>, "255"),
     NewStateLine(t, "111", <<"1">>, "255", "NULL", "CALL_PRESENT"),
     NewStateLine(t, "111", <<"1">>, "1", "NULL", "CALL_PRESENT"),
     NewStateLine(t, "111", <<"2">>, "255", "NULL", "CALL_PRESENT"),
     PagingExpiredLine(t, "111", "255"),
     StartedLine(t)}

\* every combination of the markers in a line of subscriber 111 stamped with
\* second t: callref 0 or an excluded one, tid 1 or 255, no state pair, a
\* pair of members of CallState or a pair with another name, each of the
\* line ends, with and without the service's start text
MarkerLinesAt(t) ==
    {Line(t, TRUE, "111", callref, tid, pair[1], pair[2], tail, started) :
        callref \in {<<"0">>, Excluded},
        tid \in {"1", "255"},
        pair \in {<<"", "">>, <<"NULL", "CALL_PRESENT">>, <<"NULL", "INITIATED">>},
        tail \in {"", "New transaction", "Paging expired", "tx MNCC_REL_CNF"},
        started \in BOOLEAN}

\* the line a fetch can return after n lines
RegFetch(n) ==
    RouteLinesAt(n + 1)
    \cup (IF n + 1 = MaxRegLines THEN MarkerLinesAt(n + 1) ELSE {})

\* the end of the _process_logs that folded line with the outcome r
ProcessLogsDone(line, r) ==
    /\ reg' = Processed(r.obj, reg.n + 1, <<line>>, create(line), r.exc)
    /\ calls_error_log' = calls_error_log \o r.errors
    /\ UNCHANGED <<call, PipeVars, lock, pc, self, base, win, fold, journal, twins>>

\* CallTimestamp._process_logs on the next fetched line
ProcessLogs ==
    /\ reg.n < MaxRegLines
    /\ \E line \in RegFetch(reg.n) :
          ProcessLogsDone(line, _process_logs(reg.obj, <<line>>))

NextLines == ProcessLogs

SpecLines == InitAll /\ [][NextLines]_vars


(***************************************************************************)
(* SpecJournal: the invocations of Spec on a journal that keeps what it    *)
(* has: journalctl prints for a second the lines it printed for it before. *)
(* A second has no line, a new transaction of callref 1 or the service's   *)
(* start; the seconds after MaxJournalTime have no line.                   *)
(***************************************************************************)
\* what the journal can hold for second t
JournalLinesAt(t) ==
    {<<>>, <<NewTransactionLine(t, "111", <<"1">>, "1")>>, <<StartedLine(t)>>}

\* the lines of second t in the journal em
EmittedAt(em, t) == IF t <= Len(em) THEN em[t] ELSE <<>>

RECURSIVE JournalLines(_, _, _)
\* journalctl --since since --until until on the journal em
JournalLines(em, since, until) ==
    IF since >= until \/ since > Len(em) THEN <<>>
    ELSE EmittedAt(em, since) \o JournalLines(em, since + 1, until)

\* the journals a fetch up to until can find when em is what was read
\* before: em and the lines of the seconds read for the first time
Emitted(em, until) ==
    LET last_second == IF until - 1 > MaxJournalTime THEN MaxJournalTime ELSE until - 1
    IN  IF last_second <= Len(em) THEN {em}
        ELSE {em2 \in [1..last_second -> UNION {JournalLinesAt(t) : t \in 1..last_second}] :
                 /\ \A t \in 1..Len(em) : em2[t] = em[t]
                 /\ \A t \in 1..last_second : em2[t] \in JournalLinesAt(t)}

\* what the get_log of the step leaves of the journal: em is what it read
JournalRead(em) ==
    journal' = Journal(em, IF last'.exc # "None" THEN journal.aborted + 1
                           ELSE journal.aborted)

\* CallTimestamp().get_log() on the journal
JournalGetLog ==
    /\ runs < MaxRuns
    /\ file.state # "torn"
    /\ \E n \in Readings(now) :
          /\ ticks + (n[2] - now) <= MaxTicks
          /\ ticks' = ticks + (n[2] - now)
          /\ IF fetches(Construct(file), now, n[1], n[2])
             THEN \/ \E em \in Emitted(journal.emitted,
                                        until_of(Construct(file), now, n[1], n[2])) :
                        /\ GetLogStep(file, now, n[1], n[2],
                                      JournalLines(em, Construct(file).last_call_log_until,
                                                   until_of(Construct(file), now, n[1], n[2])),
                                      Fetched(JournalLines(em,
                                                  Construct(file).last_call_log_until,
                                                  until_of(Construct(file), now, n[1], n[2]))))
                        /\ JournalRead(em)
                  \/ /\ GetLogStep(file, now, n[1], n[2], <<>>, "failed")
                     /\ JournalRead(journal.emitted)
             ELSE /\ GetLogStep(file, now, n[1], n[2], <<>>, "none")
                  /\ JournalRead(journal.emitted)
    /\ runs' = runs + 1
    /\ UNCHANGED <<call, lock, pc, self, base, win, fold, reg, twins>>

NextJournal == Tick \/ StartCalls \/ StopCalls \/ JournalGetLog

SpecJournal == InitAll /\ [][NextJournal]_vars


(***************************************************************************)
(* Properties of the session machine (SpecCall).                           *)
(***************************************************************************)
\* the terminal statuses, as the specification lists them
TerminalStatuses ==
    {"NOT_AVAILABLE", "REJECT_BY_USER", "HANGUP_BY_USER", "HANGUP_BY_BTS",
     "BREAK_BY_BTS", "STOP_BY_BTS"}

\* the transition table of the specification: <<from, to, status>>, with
\* "no change" for the entry that maps to no status
SpecTable ==
    {<<"NEW", "NULL", "NEW">>,
     <<"NULL", "CALL_PRESENT", "AVAILABLE">>,
     <<"NULL", "BROKEN_BY_BTS", "BREAK_BY_BTS">>,
     <<"NULL", "NOT_AVAILABLE", "NOT_AVAILABLE">>,
     <<"CALL_PRESENT", "RELEASE_REQ", "BREAK_BY_BTS">>,
     <<"CALL_PRESENT", "NULL", "BREAK_BY_BTS">>,
     <<"CALL_PRESENT", "MO_TERM_CALL_CONF", "INIT">>,
     <<"RELEASE_REQ", "NULL", "no change">>,
     <<"MO_TERM_CALL_CONF", "RELEASE_REQ", "BREAK_BY_BTS">>,
     <<"MO_TERM_CALL_CONF", "NULL", "BREAK_BY_BTS">>,
     <<"MO_TERM_CALL_CONF", "CALL_RECEIVED", "RINGING">>,
     <<"CALL_RECEIVED", "DISCONNECT_IND", "REJECT_BY_USER">>,
     <<"DISCONNECT_IND", "RELEASE_REQ", "HANGUP_BY_USER">>,
     <<"CALL_RECEIVED", "CONNECT_REQUEST", "UP">>,
     <<"CONNECT_REQUEST", "ACTIVE", "ACTIVE">>,
     <<"ACTIVE", "DISCONNECT_IND", "HANGUP">>,
     <<"DISCONNECT_IND", "NULL", "HANGUP_BY_BTS">>,
     <<"CALL_RECEIVED", "RELEASE_REQ", "STOP_BY_BTS">>,
     <<"CALL_RECEIVED", "NULL", "STOP_BY_BTS">>}

SpecPairs == {<<r[1], r[2]>> : r \in SpecTable}

\* the step appends one raw event to the call's history
EventAppended ==
    /\ Len(call'.events) = Len(call.events) + 1
    /\ SubSeq(call'.events, 1, Len(call.events)) = call.events

\* the (prev_state, state) pair of the event the step appended
AppendedPair ==
    <<call'.events[Len(call'.events)].prev_state, call'.events[Len(call'.events)].state>>

\* C1 (terminal freeze): from a state whose status is terminal, every
\* add_event -- with a mapped, a null-mapped or an unmapped pair -- appends
\* its event to the raw event history and leaves the status (and the status
\* history) as it was.
C1_TerminalFreeze ==
    [][(call.status \in TerminalStatuses /\ call' # call)
        => /\ EventAppended
           /\ call'.status = call.status
           /\ call'.statuses = call.statuses]_vars

\* a terminal status was reached and a further event was recorded after it
C1_Witness ==
    /\ call.status \in TerminalStatuses
    /\ Len(call.events) >= Len(call.statuses) + 1

\* C2 (transition completeness): an add_event with a pair of the transition
\* table on a call whose status is not terminal sets the status to the
\* table's value, and keeps the status for RELEASE_REQ -> NULL; the events
\* NEW -> NULL, NULL -> CALL_PRESENT, CALL_PRESENT -> MO_TERM_CALL_CONF give
\* the status history <<NEW, AVAILABLE, INIT>>.
C2_TransitionCompleteness ==
    /\ [][(call' # call /\ call.status \notin TerminalStatuses)
           => \A r \in SpecTable :
                 AppendedPair = <<r[1], r[2]>>
                 => /\ EventAppended
                    /\ call'.status = (IF r[3] = "no change" THEN call.status ELSE r[3])
                    /\ call'.statuses = Append(call.statuses, call'.status)]_vars
    /\ []((/\ Len(call.events) = 3
           /\ call.events[1].prev_state = "NEW" /\ call.events[1].state = "NULL"
           /\ call.events[2].prev_state = "NULL" /\ call.events[2].state = "CALL_PRESENT"
           /\ call.events[3].prev_state = "CALL_PRESENT"
           /\ call.events[3].state = "MO_TERM_CALL_CONF")
          => call.statuses = <<"NEW", "AVAILABLE", "INIT">>)

\* the three events of the sample scenario were fed to the call
C2_Witness ==
    /\ Len(call.events) = 3
    /\ call.statuses = <<"NEW", "AVAILABLE", "INIT">>

\* C3 (unknown-transition safety): an add_event with a pair that is no key
\* of the transition table, on a call whose status is not terminal, records
\* the event and sets the status to UNKNOWN; UNKNOWN is not terminal: a
\* later event with a mapped pair replaces it by the mapped status.
C3_UnknownTransition ==
    [][(call' # call /\ call.status \notin TerminalStatuses)
        => /\ AppendedPair \notin SpecPairs
              => /\ EventAppended
                 /\ call'.status = "UNKNOWN"
                 /\ call'.statuses = Append(call.statuses, "UNKNOWN")
           /\ call.status = "UNKNOWN"
              => \A r \in SpecTable :
                    (AppendedPair = <<r[1], r[2]>> /\ r[3] # "no change")
                    => call'.status = r[3]]_vars

\* an unmapped pair gave UNKNOWN and a mapped pair then replaced it
C3_Witness ==
    /\ Len(call.statuses) = 3
    /\ call.statuses[2] = "UNKNOWN"
    /\ call.statuses[3] \notin {"UNKNOWN", NoStatus}

(***************************************************************************)
(* Properties of the runs (Spec).                                          *)
(***************************************************************************)
\* C4 (no abort on an unrecognized transition): no get_log ends with the
\* ValueError that CallState(name) raises for a line " new state A -> B"
\* whose pair is not in the transition table; every such run goes on to
\* the next line and ends by saving the checkpoint.
C4_NeverAbortsOnUnrecognized ==
    last.op = "get_log" => last.exc # "ValueError"

\* C5 (a session-id collision is fatal and atomic): a get_log whose lines
\* bring a session-creating event for a (subscriber, session id) of the open
\* generation raises "Same callref", and a get_log that raises leaves the
\* state file -- window bounds, generation start, open and archived
\* generations -- exactly as it was before the run.
C5_CollisionAtomic ==
    [][/\ (runs' = runs + 1 /\ last'.op = "get_log" /\ last'.collides)
          => (last'.exc = "Same callref" /\ file' = file)
       /\ (runs' = runs + 1 /\ last'.exc # "None") => file' = file]_vars

\* a run was aborted by a collision
C5_Witness ==
    /\ last.op = "get_log"
    /\ last.collides
    /\ last.exc = "Same callref"
    /\ file.obj.logs # <<>>

\* C9 (window monotonicity): over invocations run one after the other, the
\* saved last_call_log_until, once it is defined, stays defined and never
\* decreases.
C9_UntilMonotonic ==
    [][file.obj.last_call_log_until # None
        => /\ file'.obj.last_call_log_until # None
           /\ file'.obj.last_call_log_until >= file.obj.last_call_log_until]_vars

\* a fetch advanced the window, in the stopped phase
C9_Witness ==
    /\ file.obj.status = STOP_STATUS
    /\ file.obj.last_call_log_until # None
    /\ file.obj.last_call_log_until > file.obj.last_call_log_since


(***************************************************************************)
(* Properties of concurrent and killed invocations (SpecConc).             *)
(***************************************************************************)
\* the steps of _dump after AtomicOpen has opened (and truncated) the file
DumpSteps == {"dump_lock", "dump_write", "dump_rest", "dump_hole", "dump_unlock"}

\* the step completes a save of p: the whole pickle of its object is written
Saves(p) ==
    /\ pc[p].at \in {"dump_write", "dump_rest"}
    /\ pc'[p].at = "dump_unlock"

\* C6 (no lost update): the lock covers the whole read-modify-write of an
\* invocation, so every save replaces the very checkpoint its invocation
\* loaded (or, with no file, created): no save is computed from an older
\* load than the checkpoint it overwrites.
C6_NoLostUpdate ==
    [][\A p \in Procs : Saves(p) => file.obj = base[p]]_vars

\* the step is a pickle.load of p that raises: the file it reads is empty or
\* partly written
LoadsTorn(p) ==
    /\ pc[p].at = "load_read"
    /\ pc'[p].at = "load_open"

\* C7 (loads and saves under the lock): with another process inside a save,
\* no load reads a file that is truncated or partly written.
C7_NoTornRead ==
    [][\A p \in Procs :
          (\E q \in Procs \ {p} : pc[q].at \in DumpSteps) => ~LoadsTorn(p)]_vars

\* the step kills p inside _dump, the file opened, p being the only process
\* that runs and its _dump being that of its method (p has loaded or created
\* the checkpoint)
KilledInDump(p) ==
    /\ pc[p].at \in DumpSteps
    /\ pc[p].after = "done"
    /\ pc'[p].at = "idle"
    /\ last'.exc = "killed"
    /\ \A q \in Procs \ {p} : pc[q].at = "idle"

\* C8 (crash safety of the save): after a writer is killed at any step of
\* _dump the state file holds a whole checkpoint, the previous one or the
\* new one, which the next load returns.
C8_CrashSafeSave ==
    [][\A p \in Procs :
          KilledInDump(p) => /\ file'.state = "complete"
                             /\ file'.obj \in {base[p], self[p]}]_vars

\* C10 (no line is processed twice): the windows since..until whose folds
\* were saved do not overlap pairwise, so no line of the log is folded into
\* the saved registry by two runs.
C10_WindowsDisjoint ==
    \A i \in 1..Len(commits) : \A j \in (i + 1)..Len(commits) :
        \/ commits[i][2] <= commits[j][1]
        \/ commits[j][2] <= commits[i][1]


(***************************************************************************)
(* Properties of the window (Spec).                                        *)
(***************************************************************************)
\* the step is an invocation that ran to its end
RunStep == runs' = runs + 1

\* C11 (no line is skipped): the saved last_call_log_until, once defined,
\* moves only by a get_log that fetched and saved the window from its old
\* value to its new one, so the saved windows are contiguous and cover every
\* second from the first since to the latest until.
C11_WindowsContiguous ==
    [][(/\ file.obj.last_call_log_until # None
        /\ file'.obj.last_call_log_until # file.obj.last_call_log_until)
       => /\ Len(commits') = Len(commits) + 1
          /\ commits'[Len(commits')] = <<file.obj.last_call_log_until,
                                         file'.obj.last_call_log_until>>]_vars


\* C12 (a failed fetch is all or nothing): a get_log whose journalctl call
\* failed ends with an exception that reaches the caller and leaves the
\* saved last_call_log_until as it was.
C12_FetchFailureAtomic ==
    [][(RunStep /\ last'.op = "get_log" /\ last'.fetch = "failed")
       => /\ last'.exc # "None"
          /\ file'.obj.last_call_log_until = file.obj.last_call_log_until]_vars


(***************************************************************************)
(* Properties of the load (SpecConc).                                      *)
(***************************************************************************)
\* C13 (load outcomes): with no state file the constructor takes the default
\* state (and saves it); with a file, a read of anything but a whole pickle
\* is tried again, and the read of a whole pickle ends the load with that
\* checkpoint: the load never yields the default state for an existing
\* file and never raises.
C13_LoadOutcomes ==
    [][\A p \in Procs :
          /\ (pc[p].at = "isfile" /\ pc'[p].at \notin {"isfile", "idle"})
             => IF file.state = "absent"
                THEN self'[p] = DefaultObj /\ pc'[p] = At("dump_open", pc[p].op, "run")
                ELSE self'[p] = self[p] /\ pc'[p].at = "load_open"
          /\ (pc[p].at = "load_read" /\ pc'[p].at \notin {"load_read", "idle"})
             => IF file.state = "complete"
                THEN self'[p] = file.obj /\ pc'[p].at = "run"
                ELSE self'[p] = self[p] /\ pc'[p].at = "load_open"]_vars

\* a constructor has loaded a checkpoint that is not the default state
C13_Witness ==
    \E p \in Procs :
        /\ pc[p].at = "run"
        /\ base[p] # DefaultObj
        /\ self[p] = base[p]


(***************************************************************************)
(* Properties of the window computation (Spec).                            *)
(***************************************************************************)
Min(a, b) == IF a <= b THEN a ELSE b

\* the step is a get_log that returned, run on a saved window
GetLogReturns ==
    /\ RunStep
    /\ last'.op = "get_log"
    /\ last'.exc = "None"
    /\ file.obj.last_call_log_until # None

\* the upper bound of the specification for the object obj at clock t
SpecUntil(obj, t) ==
    IF obj.status = WORK_STATUS THEN t ELSE Min(obj.call_stop + Grace, t)

\* the step is the one the window computation of the specification gives at
\* clock t: a fetch of since..until that saves the two bounds when
\* since < until, else no fetch and the saved state as it was
SpecWindowStep(t) ==
    IF file.obj.last_call_log_until < SpecUntil(file.obj, t)
    THEN /\ last'.fetch # "none"
         /\ file'.obj.last_call_log_since = file.obj.last_call_log_until
         /\ file'.obj.last_call_log_until = SpecUntil(file.obj, t)
    ELSE /\ last'.fetch = "none"
         /\ file'.obj = file.obj

\* C14 (window computation): a get_log that returns has computed its window
\* as specified for a reading t of the clock taken during the call:
\* since = last_call_log_until, until = t in the work phase and
\* min(call_stop + 30 s, t) in the stopped phase.
C14_WindowComputation ==
    [][GetLogReturns => \E t \in now..now' : SpecWindowStep(t)]_vars


\* C15 as stated (an empty second run is idempotent): of two get_log run
\* in a row, the second, when no new line is there for it, leaves the saved
\* last_call_log_until as it was.
C15_EmptyRerunIdempotent ==
    [][(/\ GetLogReturns
        /\ last.op = "get_log" /\ last.exc = "None"
        /\ last'.fetch \in {"none", "empty"})
       => file'.obj.last_call_log_until = file.obj.last_call_log_until]_vars

\* C15 amended: a get_log that runs while the clock has not passed the saved
\* last_call_log_until fetches nothing and leaves the saved state, and so
\* last_call_log_until, as it was.
C15_RerunSameClock ==
    [][(GetLogReturns /\ now' <= file.obj.last_call_log_until)
       => /\ last'.fetch = "none"
          /\ file'.obj = file.obj]_vars

\* a get_log has saved a window and the next invocation, a get_log at the
\* same clock, fetched nothing
C15_Witness ==
    /\ last.op = "get_log" /\ last.exc = "None" /\ last.fetch = "none"
    /\ commits # <<>>
    /\ runs = Len(commits) + 2
    /\ file.obj.status = WORK_STATUS
    /\ file.obj.last_call_log_until = now

(***************************************************************************)
(* Properties of the generations (SpecFold).                               *)
(***************************************************************************)
\* the sessions of a generation, as positions <<subscriber, call>>
SessionsIn(logs) ==
    UNION {{<<i, j>> : j \in 1..Len(logs[i].calls)} : i \in 1..Len(logs)}

\* a query returned
QueryReturns == fold'.n = fold.n + 1 /\ fold'.exc = "None"

\* a query returned whose fetch was a restart marker
StartedStep ==
    QueryReturns /\ fold'.lines # <<>> /\ fold'.lines[1].started

\* the generation gen is archived in all_logs
Archived(all_logs, gen) == \E k \in 1..Len(all_logs) : all_logs[k] = gen

\* the entries of all_logs under another key than that of gen
OtherKeys(all_logs, gen) ==
    {all_logs[k] : k \in {k \in 1..Len(all_logs) :
                             <<all_logs[k].start, all_logs[k].end>> # <<gen.start, gen.end>>}}

\* what a restart marker stamped t makes of the saved generations of obj
\* in obj2
BoundaryStep(obj, obj2, t) ==
    /\ obj2.start_time = t
    /\ obj2.logs = <<>>
    /\ IF obj.logs # <<>>
       THEN /\ Archived(obj2.all_logs,
                        [start |-> obj.start_time, end |-> t, logs |-> obj.logs])
            /\ OtherKeys(obj2.all_logs, [start |-> obj.start_time, end |-> t])
                 = OtherKeys(obj.all_logs, [start |-> obj.start_time, end |-> t])
            /\ Len(obj2.all_logs) <= Len(obj.all_logs) + 1
       ELSE obj2.all_logs = obj.all_logs

\* two sessions, a restart marker, one session: the history of the scenario
TwoMarkerOne == <<"create", "create", "started", "create">>

\* C16 (generation boundary): a restart marker archives the open generation
\* under the key of its start and the marker's time with exactly its
\* sessions when it holds one, archives nothing when it holds none, leaves
\* the open generation empty and its start at the marker's time; after two
\* sessions, a marker and one more session there is one archived generation
\* with the two and the open one with the one.
C16_GenerationBoundary ==
    [][/\ StartedStep
          => BoundaryStep(fold.obj, fold'.obj, fold'.lines[1].event_time)
       /\ (QueryReturns /\ fold'.fed = TwoMarkerOne)
          => /\ Len(fold'.obj.all_logs) = 1
             /\ Cardinality(SessionsIn(fold'.obj.all_logs[1].logs)) = 2
             /\ Cardinality(SessionsIn(fold'.obj.logs)) = 1]_vars

\* the scenario of C16 has happened
C16_Witness ==
    /\ fold.fed = TwoMarkerOne
    /\ fold.exc = "None"
    /\ fold.lines # <<>> /\ new_transaction_of(fold.lines[1])

\* C17 (open-generation exposure): the records a query's get_log returned
\* are the archived generations and, exactly when the open generation holds
\* a session, after them one entry under the key of its start and no end
\* that holds the open generation; no saved archived generation has a key
\* without an end.
C17_OpenGenerationExposure ==
    (fold.op # "none" /\ fold.exc = "None")
    => /\ fold.records
            = IF fold.obj.logs # <<>>
              THEN Append(fold.obj.all_logs,
                          [start |-> fold.obj.start_time, end |-> None,
                           logs |-> fold.obj.logs])
              ELSE fold.obj.all_logs
       /\ \A k \in 1..Len(fold.obj.all_logs) : fold.obj.all_logs[k].end # None

\* a query returned with an archived generation and a session in the open one
C17_Witness ==
    /\ fold.op # "none" /\ fold.exc = "None"
    /\ fold.obj.all_logs # <<>>
    /\ fold.obj.logs # <<>>
    /\ Len(fold.records) = Len(fold.obj.all_logs) + 1

\* the sessions of the generations of all_logs, as positions
\* <<generation, subscriber, call>>
ArchivedSessions(all_logs) ==
    UNION {{<<k, ij[1], ij[2]>> : ij \in SessionsIn(all_logs[k].logs)} :
              k \in 1..Len(all_logs)}

\* the creating lines folded so far
Created(fed) == Cardinality({k \in 1..Len(fed) : fed[k] = "create"})

\* C18 (one generation per session): in the saved state the sessions of the
\* archived generations and of the open generation together are the sessions
\* created so far, each once, and so are the sessions of the records a
\* query's get_log returned.
C18_OneGenerationPerSession ==
    /\ Cardinality(ArchivedSessions(fold.obj.all_logs))
         + Cardinality(SessionsIn(fold.obj.logs)) = Created(fold.fed)
    /\ (fold.op # "none" /\ fold.exc = "None")
       => Cardinality(ArchivedSessions(fold.records)) = Created(fold.fed)

(***************************************************************************)
(* Properties of the status queries (SpecFold).                            *)
(***************************************************************************)
\* the statuses the filtered query reports
Interesting == {"NOT_AVAILABLE", "RINGING", "ACTIVE", "REJECT_BY_USER", "HANGUP"}

\* the generation the returned records end with
Selected == fold.records[Len(fold.records)].logs

\* status s occurs in the status history of a session of subscriber imsi in
\* the generation logs
Occurs(logs, imsi, s) ==
    \E g \in 1..Len(logs) :
        /\ logs[g].imsi = imsi
        /\ \E j \in 1..Len(logs[g].calls) :
              \E k \in 1..Len(logs[g].calls[j].statuses) :
                  logs[g].calls[j].statuses[k] = s

\* the subscribers of a generation or of a query's result
Subscribers(entries) == {entries[i].imsi : i \in 1..Len(entries)}

\* C19 (latest_filtered_statuses): calls_status returns one entry for every
\* subscriber of the selected generation and for no other subscriber; the
\* entry is the set of the interesting statuses that occur in the status
\* history of at least one session of that subscriber in that generation.
C19_FilteredStatuses ==
    (fold.op = "calls_status" /\ fold.exc = "None")
    => IF fold.records = <<>> THEN fold.result = <<>>
       ELSE /\ Len(fold.result) = Len(Selected)
            /\ Subscribers(fold.result) = Subscribers(Selected)
            /\ \A i \in 1..Len(fold.result) :
                  \A s \in CallStatus \cup {NoStatus} :
                      s \in fold.result[i].statuses
                      <=> (s \in Interesting /\ Occurs(Selected, fold.result[i].imsi, s))

\* calls_status answered with ACTIVE for a subscriber with two sessions, of
\* which it filtered NEW out, and without the subscriber of an archived
\* generation
C19_Witness ==
    /\ fold.op = "calls_status" /\ fold.exc = "None"
    /\ Len(fold.records) = 2
    /\ Subscribers(fold.records[1].logs) = {"222"}
    /\ Len(fold.result) = 1
    /\ fold.result[1].imsi = "111"
    /\ fold.result[1].statuses = {"ACTIVE"}
    /\ Len(Selected[1].calls) = 2
    /\ Occurs(Selected, "111", "NEW")

\* the most recent generation of the saved state: the open one when it holds
\* a session, else the one archived last (<<>>: there is none)
MostRecent == IF fold.obj.logs # <<>> THEN fold.obj.logs ELSE fold.archived

\* the current statuses of the sessions of entry i of generation logs
CurrentStatuses(logs, i) ==
    [j \in 1..Len(logs[i].calls) |-> logs[i].calls[j].status]

\* C20 (query scope): a status query that returns reports on the most
\* recent generation only, the open one when it holds a session, else the
\* one archived last: its result has one entry for each subscriber of that
\* generation, for calls_status the interesting statuses of that
\* subscriber's sessions there, for calls_status_show the current status of
\* each of them.
C20_QueryScope ==
    (fold.op # "none" /\ fold.exc = "None")
    => /\ Len(fold.result) = Len(MostRecent)
       /\ \A i \in 1..Len(fold.result) :
             /\ fold.result[i].imsi = MostRecent[i].imsi
             /\ IF fold.op = "calls_status_show"
                THEN fold.result[i].statuses = CurrentStatuses(MostRecent, i)
                ELSE fold.result[i].statuses
                       = {s \in Interesting : Occurs(MostRecent, MostRecent[i].imsi, s)}

\* calls_status_show answered from the generation archived last, the open
\* one being empty, with an earlier archived generation of another
\* subscriber
C20_Witness ==
    /\ fold.op = "calls_status_show" /\ fold.exc = "None"
    /\ fold.obj.logs = <<>>
    /\ Len(fold.obj.all_logs) = 2
    /\ Subscribers(fold.obj.all_logs[1].logs) = {"222"}
    /\ fold.result = <<[imsi |-> "111", statuses |-> <<"ACTIVE">>]>>

(***************************************************************************)
(* Properties of the classifier and of the routing (SpecLines).            *)
(***************************************************************************)
\* one more line was folded, or the fold of it raised
LineStep == reg'.n = reg.n + 1

\* the callref of the line is 4 or 8 and seven more hex digits
ExcludedId(line) == Len(line.callref) = 8 /\ line.callref[1] \in {"4", "8"}

\* C21 (exclusion filter): a line with an excluded callref is no event,
\* whatever markers it carries, and folding it raises nothing and leaves
\* the registry, the generations and the generation start as they were.
C21_ExclusionFilter ==
    [][(LineStep /\ ExcludedId(reg'.lines[1]))
       => /\ reg'.event = [kind |-> "None"]
          /\ reg'.exc = "None"
          /\ reg'.obj = reg.obj]_vars

\* an excluded line with the new-transaction end, the service's start text
\* and a state pair was folded into a registry that holds a session
C21_Witness ==
    /\ reg.lines # <<>>
    /\ ExcludedId(reg.lines[1])
    /\ reg.lines[1].tail = "New transaction"
    /\ reg.lines[1].started
    /\ reg.lines[1].from_state # ""
    /\ reg.obj.logs # <<>>
    /\ reg.event = [kind |-> "None"]

\* the markers of a line
HasNew(line) == line.tail = "New transaction"
HasStarted(line) == line.started
HasRelease(line) == line.tid = "255" /\ line.tail = "tx MNCC_REL_CNF"
HasExpired(line) == line.tid = "255" /\ line.tail = "Paging expired"
HasPair(line) == line.from_state # "" /\ line.to_state # ""

\* event is the event of line with the raw transition prev -> state
IsEvent(event, line, prev, state) ==
    /\ event.kind = "event"
    /\ ~event.is_started_event
    /\ event.event = CallStateEvent(state, prev, line.event_time)
    /\ event.imsi = line.imsi /\ event.callref = line.callref /\ event.tid = line.tid

\* what the classifier makes of a line that is not excluded, by priority
Classified(event, line) ==
    IF HasNew(line) THEN IsEvent(event, line, "NEW", "NULL")
    ELSE IF HasStarted(line)
         THEN event.kind = "event" /\ event.is_started_event
              /\ event.event_time = line.event_time
    ELSE IF HasRelease(line) THEN IsEvent(event, line, "NULL", "BROKEN_BY_BTS")
    ELSE IF HasExpired(line) THEN IsEvent(event, line, "NULL", "NOT_AVAILABLE")
    ELSE IF HasPair(line)
         THEN IF line.tail = "" /\ line.from_state \in CallState
                 /\ line.to_state \in CallState
              THEN IsEvent(event, line, line.from_state, line.to_state)
              ELSE event = [kind |-> "raise", exc |-> "ValueError"]
    ELSE event = [kind |-> "raise", exc |-> "Unknown event"]

\* C22 (classifier priority): of a line that is not excluded exactly one
\* branch makes the event, the first of new transaction (NEW -> NULL),
\* service started, forced release (NULL -> BROKEN_BY_BTS), paging expired
\* (NULL -> NOT_AVAILABLE) and state pair whose marker the line carries; the
\* pair branch raises ValueError for a name that is no CallState; a line
\* with no marker raises "Unknown event".
C22_ClassifierPriority ==
    (reg.lines # <<>> /\ ~ExcludedId(reg.lines[1]))
    => Classified(reg.event, reg.lines[1])

\* a line with the new-transaction end, the service's start text and a
\* state pair was classified as a new transaction
C22_Witness ==
    /\ reg.lines # <<>>
    /\ ~ExcludedId(reg.lines[1])
    /\ HasNew(reg.lines[1]) /\ HasStarted(reg.lines[1]) /\ HasPair(reg.lines[1])
    /\ IsEvent(reg.event, reg.lines[1], "NEW", "NULL")

\* the event that the line just folded was classified as is neither the
\* service's start nor a new transaction
RoutedStep ==
    /\ LineStep
    /\ reg'.event.kind = "event"
    /\ ~reg'.event.is_started_event
    /\ reg'.event.event.prev_state # "NEW"

\* such an event with callref 0 was folded
SentinelStep == RoutedStep /\ reg'.event.callref = <<"0">>

\* the sessions of subscriber imsi in the open generation of obj, in
\* insertion order
OpenCalls(obj, imsi) ==
    IF \E i \in 1..Len(obj.logs) : obj.logs[i].imsi = imsi
    THEN obj.logs[CHOOSE i \in 1..Len(obj.logs) : obj.logs[i].imsi = imsi].calls
    ELSE <<>>

\* the last raw state of a session is one the sentinel path passes over
AtRest(session) ==
    session.events[Len(session.events)].state \in {"NULL", "BROKEN_BY_BTS", "NOT_AVAILABLE"}

\* the sessions among calls that an event with callref 0 and transaction id
\* tid may go to
SentinelMatches(calls, tid) ==
    {j \in 1..Len(calls) : calls[j].tid = tid /\ ~AtRest(calls[j])}

\* the sessions after are those before, but for session j, which got the
\* raw event ev (j = 0: no session got it)
OnlyUpdated(before, after, j, ev) ==
    /\ Len(after) = Len(before)
    /\ \A k \in 1..Len(before) :
          IF k = j THEN after[k].events = Append(before[k].events, ev)
          ELSE after[k] = before[k]

\* C23 (sentinel routing): an event with callref 0 that creates no session
\* is added to the first session, in insertion order, of its subscriber in
\* the open generation whose transaction id is the event's and whose last
\* raw state is not NULL, BROKEN_BY_BTS or NOT_AVAILABLE; every other
\* session keeps its events, statuses and status.
C23_SentinelFirstMatch ==
    [][SentinelStep
       => /\ reg'.exc = "None"
          /\ OnlyUpdated(OpenCalls(reg.obj, reg'.event.imsi),
                         OpenCalls(reg'.obj, reg'.event.imsi),
                         First(SentinelMatches(OpenCalls(reg.obj, reg'.event.imsi),
                                               reg'.event.tid)),
                         reg'.event.event)]_vars

\* a paging-expired line was folded while two sessions of the subscriber
\* matched: the first is NOT_AVAILABLE, the second as it was
C23_Witness ==
    /\ reg.lines # <<>> /\ HasExpired(reg.lines[1]) /\ reg.exc = "None"
    /\ reg.event.kind = "event" /\ reg.event.callref = <<"0">>
    /\ Len(OpenCalls(reg.obj, "111")) = 2
    /\ OpenCalls(reg.obj, "111")[1].status = "NOT_AVAILABLE"
    /\ Len(OpenCalls(reg.obj, "111")[1].events) = 3
    /\ SentinelMatches(OpenCalls(reg.obj, "111"), "255") = {2}

\* C24 (sentinel passes over sessions at rest): an event with callref 0
\* that creates no session leaves every session unchanged whose last raw
\* state is NULL, BROKEN_BY_BTS or NOT_AVAILABLE, so also a session that has
\* only its creation event NEW -> NULL.
C24_SentinelSkipsAtRest ==
    [][SentinelStep
       => \A j \in 1..Len(OpenCalls(reg.obj, reg'.event.imsi)) :
             AtRest(OpenCalls(reg.obj, reg'.event.imsi)[j])
             => /\ Len(OpenCalls(reg'.obj, reg'.event.imsi)) >= j
                /\ OpenCalls(reg'.obj, reg'.event.imsi)[j]
                     = OpenCalls(reg.obj, reg'.event.imsi)[j]]_vars

\* a paging-expired line was folded while the subscriber's only session,
\* of transaction id 255, had its creation event alone, and has it still
C24_Witness ==
    /\ reg.lines # <<>> /\ HasExpired(reg.lines[1]) /\ reg.exc = "None"
    /\ reg.event.kind = "event" /\ reg.event.callref = <<"0">>
    /\ Len(OpenCalls(reg.obj, "111")) = 1
    /\ OpenCalls(reg.obj, "111")[1].tid = "255"
    /\ Len(OpenCalls(reg.obj, "111")[1].events) = 1
    /\ OpenCalls(reg.obj, "111")[1].status = "NEW"

\* no session of the open generation of obj is one the event goes to
Unroutable(obj, event) ==
    IF event.callref = <<"0">>
    THEN SentinelMatches(OpenCalls(obj, event.imsi), event.tid) = {}
    ELSE \A j \in 1..Len(OpenCalls(obj, event.imsi)) :
             OpenCalls(obj, event.imsi)[j].callref # event.callref

\* C25 (unroutable events): an event that is neither the service's start
\* nor a new transaction and that no session of the open generation takes
\* raises nothing and leaves the open generation, the archived generations
\* and the generation start as they were.
C25_UnroutableDropped ==
    [][(RoutedStep /\ Unroutable(reg.obj, reg'.event))
       => /\ reg'.exc = "None"
          /\ reg'.obj = reg.obj]_vars

\* a state line for callref 1 was folded while the only session with that
\* callref was in an archived generation and another one in the open one
C25_Witness ==
    /\ reg.lines # <<>> /\ reg.exc = "None"
    /\ reg.event.kind = "event" /\ ~reg.event.is_started_event
    /\ reg.event.event.prev_state = "NULL"
    /\ reg.event.callref = <<"1">>
    /\ Len(reg.obj.all_logs) = 1
    /\ OpenCalls([logs |-> reg.obj.all_logs[1].logs], "111")[1].callref = <<"1">>
    /\ Len(OpenCalls([logs |-> reg.obj.all_logs[1].logs], "111")[1].events) = 1
    /\ Len(OpenCalls(reg.obj, "111")) = 1
    /\ OpenCalls(reg.obj, "111")[1].callref = <<"2">>
    /\ Len(OpenCalls(reg.obj, "111")[1].events) = 1

(***************************************************************************)
(* Properties of a session's end and status history (SpecCall).            *)
(***************************************************************************)
\* the raw transitions of a session, as pairs <<prev_state, state>>
RawPairs(session) ==
    [k \in 1..Len(session.events) |->
        <<session.events[k].prev_state, session.events[k].state>>]

\* the new state of the most recent raw event
LastRaw(session) == session.events[Len(session.events)].state

\* C26 (is_over): is_over is true exactly when the new state of the most
\* recent raw event is NOT_AVAILABLE or BROKEN_BY_BTS, or is NULL and the
\* session has more than one raw event; it is false for a session with its
\* creation event alone and after NEW -> NULL, NULL -> CALL_PRESENT,
\* CALL_PRESENT -> MO_TERM_CALL_CONF.
C26_IsOver ==
    call.events # <<>>
    => /\ is_over(call)
            <=> \/ LastRaw(call) \in {"NOT_AVAILABLE", "BROKEN_BY_BTS"}
                \/ (LastRaw(call) = "NULL" /\ Len(call.events) > 1)
       /\ RawPairs(call) = <<<<"NEW", "NULL">>>> => ~is_over(call)
       /\ RawPairs(call) = <<<<"NEW", "NULL">>, <<"NULL", "CALL_PRESENT">>,
                             <<"CALL_PRESENT", "MO_TERM_CALL_CONF">>>>
            => ~is_over(call)

\* a session came back to NULL after it had left it, and is over
C26_Witness ==
    /\ RawPairs(call) = <<<<"NEW", "NULL">>, <<"NULL", "CALL_PRESENT">>,
                          <<"CALL_PRESENT", "NULL">>>>
    /\ is_over(call)

\* the status history of a session that has a raw event: not empty, its
\* last entry is the status, no longer than the raw events, a terminal
\* status in it only as the last entry
HistoryShape(session) ==
    /\ session.statuses # <<>>
    /\ session.statuses[Len(session.statuses)] = session.status
    /\ Len(session.statuses) <= Len(session.events)
    /\ \A k \in 1..Len(session.statuses) :
          session.statuses[k] \in TerminalStatuses => k = Len(session.statuses)

\* C27 (status history): a session with a raw event has a status history
\* that is not empty, ends with the current status and is no longer than
\* the raw events; an add_event on a status that is not terminal appends
\* one status entry, also when the status stays; on a terminal status the
\* raw event is appended and no status entry; a terminal status is in the
\* history at most once, as its last entry.
C27_StatusHistory ==
    [][/\ call'.events # <<>> => HistoryShape(call')
       /\ EventAppended
          => IF call.status \in TerminalStatuses
             THEN call'.statuses = call.statuses
             ELSE /\ Len(call'.statuses) = Len(call.statuses) + 1
                  /\ SubSeq(call'.statuses, 1, Len(call.statuses)) = call.statuses]_vars

\* a terminal status was recorded and the raw event after it was appended
\* while the status history stayed as it was
C27_Witness ==
    /\ Len(call.events) = 3
    /\ call.statuses = <<"NEW", "NOT_AVAILABLE">>
    /\ call.status = "NOT_AVAILABLE"

(***************************************************************************)
(* Properties of a chained session (SpecChain).                            *)
(***************************************************************************)
\* the raw events of the session are chained and follow the table: the
\* first is NEW -> NULL, each later one starts from the state the one
\* before it ended in, and every pair is a key of the transition table
Chained(session) ==
    /\ session.events # <<>>
    /\ RawPairs(session)[1] = <<"NEW", "NULL">>
    /\ \A k \in 2..Len(session.events) :
          session.events[k].prev_state = session.events[k - 1].state
    /\ \A k \in 1..Len(session.events) : RawPairs(session)[k] \in SpecPairs

\* the session as it was after its first n raw events, as is_over reads it
RawPrefix(session, n) == [session EXCEPT !.events = SubSeq(@, 1, n)]

\* C31 (over implies terminal): a session fed a chained sequence of events
\* of the transition table is chained, and when is_over holds of it its
\* status is terminal; the converse fails: after NEW -> NULL,
\* NULL -> CALL_PRESENT, CALL_PRESENT -> RELEASE_REQ the status is
\* BREAK_BY_BTS, which is terminal, and is_over is false.
C31_OverImpliesTerminal ==
    call.events # <<>>
    => /\ Chained(call)
       /\ is_over(call) => call.status \in TerminalStatuses
       /\ RawPairs(call) = <<<<"NEW", "NULL">>, <<"NULL", "CALL_PRESENT">>,
                             <<"CALL_PRESENT", "RELEASE_REQ">>>>
            => /\ call.status = "BREAK_BY_BTS"
               /\ ~is_over(call)

\* the session went through a whole answered call: after the subscriber's
\* disconnect it was not over and its status was not terminal, after the
\* release request its status was terminal while it was not over, and after
\* the release it is over with that terminal status
C31_Witness ==
    /\ RawPairs(call) = <<<<"NEW", "NULL">>, <<"NULL", "CALL_PRESENT">>,
                          <<"CALL_PRESENT", "MO_TERM_CALL_CONF">>,
                          <<"MO_TERM_CALL_CONF", "CALL_RECEIVED">>,
                          <<"CALL_RECEIVED", "CONNECT_REQUEST">>,
                          <<"CONNECT_REQUEST", "ACTIVE">>,
                          <<"ACTIVE", "DISCONNECT_IND">>,
                          <<"DISCONNECT_IND", "RELEASE_REQ">>,
                          <<"RELEASE_REQ", "NULL">>>>
    /\ ~is_over(RawPrefix(call, 7))
    /\ call.statuses[7] = "HANGUP"
    /\ ~is_over(RawPrefix(call, 8))
    /\ call.statuses[8] = "HANGUP_BY_USER"
    /\ is_over(call)
    /\ call.status = "HANGUP_BY_USER"

(***************************************************************************)
(* Properties of two sessions fed the same event (SpecPair).               *)
(***************************************************************************)
\* the status the transition table gives for an event with the pair key on
\* a session whose status is status
Mapped(status, key) ==
    IF status \in TerminalStatuses THEN status
    ELSE IF key \notin SpecPairs THEN "UNKNOWN"
    ELSE LET r == CHOOSE r \in SpecTable : <<r[1], r[2]>> = key
         IN  IF r[3] = "no change" THEN status ELSE r[3]

\* session t is session s with one more raw event, and its status is what
\* the table gives for that event's own pair on the status of s
AcceptedByPair(s, t) ==
    /\ Len(t.events) = Len(s.events) + 1
    /\ SubSeq(t.events, 1, Len(s.events)) = s.events
    /\ t.status = Mapped(s.status, RawPairs(t)[Len(t.events)])

\* C32 (the status does not depend on the raw history): when two sessions
\* with the same status get the same event, their statuses are the same
\* after it, whatever raw events each has recorded; every event a session
\* gets is appended to its raw events and mapped by its own pair and the
\* session's status, also when the event's prior state is not the state of
\* the session's last raw event.
C32_StatusIgnoresHistory ==
    [][twins' # twins
       => /\ (twins'.fed = "both" /\ twins.a.status = twins.b.status)
             => twins'.a.status = twins'.b.status
          /\ twins'.fed \in {"made", "a", "both"} => AcceptedByPair(twins.a, twins'.a)
          /\ twins'.fed \in {"made", "b", "both"} => AcceptedByPair(twins.b, twins'.b)
          /\ twins'.fed = "a" => twins'.b = twins.b
          /\ twins'.fed = "b" => twins'.a = twins.a]_vars

\* two sessions that had the same status UNKNOWN after different raw
\* events, one ending in ACTIVE and one in NULL, got the same event
\* CALL_PRESENT -> MO_TERM_CALL_CONF, which follows neither, and both have
\* the status INIT
C32_Witness ==
    /\ twins.fed = "both"
    /\ RawPairs(twins.a) = <<<<"NEW", "NULL">>, <<"NULL", "ACTIVE">>,
                             <<"CALL_PRESENT", "MO_TERM_CALL_CONF">>>>
    /\ RawPairs(twins.b) = <<<<"NEW", "NULL">>, <<"ACTIVE", "NULL">>,
                             <<"CALL_PRESENT", "MO_TERM_CALL_CONF">>>>
    /\ twins.a.statuses = <<"NEW", "UNKNOWN", "INIT">>
    /\ twins.b.statuses = <<"NEW", "UNKNOWN", "INIT">>

(***************************************************************************)
(* Properties of the phase change (Spec).                                  *)
(***************************************************************************)
\* a start_calls invocation ran
StartCallsStep == RunStep /\ last'.op = "start_calls"

\* C28 (start_calls while collecting): in the phase "work" start_calls
\* leaves phase, call start, call stop, window bounds and generations as
\* they are and does not save; from the stopped phase it sets the phase to
\* "work", clears the stop time, sets both window bounds to now, leaves the
\* generations alone and saves.
C28_StartCallsNoOp ==
    [][StartCallsStep
       => IF Construct(file).status = WORK_STATUS
          THEN /\ file'.obj = file.obj
               /\ ~start_calls(Construct(file), now).dump
          ELSE /\ file'.obj.status = WORK_STATUS
               /\ file'.obj.call_stop = None
               /\ file'.obj.last_call_log_since = now
               /\ file'.obj.last_call_log_until = now
               /\ file'.obj.all_logs = Construct(file).all_logs
               /\ file'.obj.logs = Construct(file).logs
               /\ file'.obj.start_time = Construct(file).start_time
               /\ start_calls(Construct(file), now).dump]_vars

\* start_calls ran last, in a phase "work" whose window a get_log had
\* advanced, and the window is still that one
C28_Witness ==
    /\ last.op = "start_calls"
    /\ file.obj.status = WORK_STATUS
    /\ file.obj.last_call_log_until > file.obj.last_call_log_since

(***************************************************************************)
(* Properties of the saved window bounds (Spec).                           *)
(***************************************************************************)
\* C33 (window bounds): whenever the saved window bounds are defined,
\* last_call_log_since <= last_call_log_until <= now, and in the stopped
\* phase the stop time is defined and last_call_log_until is at most the
\* stop time plus 30 s; no get_log ends on an undefined stop time.
C33_WindowBounds ==
    /\ file.obj.last_call_log_until # None
       => /\ file.obj.last_call_log_since # None
          /\ file.obj.last_call_log_since <= file.obj.last_call_log_until
          /\ file.obj.last_call_log_until <= now
          /\ file.obj.status = STOP_STATUS
             => /\ file.obj.call_stop # None
                /\ file.obj.last_call_log_until <= file.obj.call_stop + Grace
    /\ last.exc # "TypeError"

(***************************************************************************)
(* Properties of the archive (SpecFold).                                   *)
(***************************************************************************)
\* the restart markers folded so far that closed an open generation with a
\* session in it: those that follow a creating line
Closings(fed) ==
    Cardinality({k \in 2..Len(fed) : fed[k] = "started" /\ fed[k - 1] = "create"})

\* C29 (archive immutable): every archived generation stays in the archive
\* in its place with the sessions it holds, whatever is folded later, and
\* the archived generations are as many as the restart markers that closed
\* an open generation with a session in it.
C29_ArchiveImmutable ==
    [][/\ \A k \in 1..Len(fold.obj.all_logs) :
             /\ Len(fold'.obj.all_logs) >= k
             /\ fold'.obj.all_logs[k] = fold.obj.all_logs[k]
       /\ Len(fold'.obj.all_logs) = Closings(fold'.fed)]_vars

(***************************************************************************)
(* Properties of a collision on a journal that keeps its lines             *)
(* (SpecJournal).                                                          *)
(***************************************************************************)
\* the journal holds, from the saved last_call_log_until on, lines that
\* collide with the saved open generation: a get_log read them and raised
Blocked ==
    /\ file.obj.last_call_log_until # None
    /\ Collides(file.obj, JournalLines(journal.emitted, file.obj.last_call_log_until,
                                       Len(journal.emitted) + 1))

\* a get_log ran whose journalctl did not fail
GetLogRead == RunStep /\ last'.op = "get_log" /\ last'.fetch # "failed"

====
